---- MODULE Spec2Model ----
(***************************************************************************)
(* A model of rs-simple-fft: the fixed-point scalar and complex types, the *)
(* table precomputation, the radix-2 DIT butterfly core, the complex and   *)
(* real FFT handles of the fixed-point engine, and the constructors of the *)
(* floating-point engine.                                                  *)
(*                                                                         *)
(* A Fixed<FRAC> is its raw i32 store.  TLC's integers are 32 bits wide,   *)
(* so every operation whose exact result may leave the i32 range (the i64  *)
(* product of a multiplication, a wrapping sum) is computed on 16-bit or   *)
(* 8-bit limbs and gives exactly the bits the Rust code gives.             *)
(***************************************************************************)
EXTENDS Integers, Sequences, FiniteSets, TLC

VARIABLES
    overflow_checks,  \* build profile: TRUE when arithmetic overflow panics (debug)
    engine,           \* the constructor called: "fixed_cplx", "fixed_real", "float_cplx", "float_real"
    twiddles,         \* the caller's twiddle table, borrowed by the handle
    bitrev,           \* the caller's bit-reversal table, borrowed by the handle
    n,                \* the size passed to new
    new_result,       \* "none" before new; then "Ok", "NotPowerOfTwo", "BufferTooSmall" or "panic"
    buffer,           \* the caller's sample buffer
    orig,             \* the buffer as the caller loaded it
    hist,             \* the directions of the process calls made on buffer since it was loaded
    proc_result,      \* result of the last process call: "none", "Ok", "SizeMismatch", "panic"
    prev,             \* the buffer as it was when the last process call was entered
    thread,           \* the process calls in progress on the shared handle, one per thread
    calc              \* the last call of a scalar or layout function: its name, arguments, result

vars == <<overflow_checks, engine, twiddles, bitrev, n, new_result,
          buffer, orig, hist, proc_result, prev, thread, calc>>

---------------------------------------------------------------------------
(* Bounds of the model.                                                    *)

\* sizes passed to new range over 0 .. 2^MaxLog2N
MaxLog2N == 3
\* a buffer holds at most MaxNonZero samples that are not zero
MaxNonZero == 2
\* at most MaxCalls process calls are made on a buffer after it is loaded
MaxCalls == 2
\* the handle two threads share has a size of at most 2^MaxSharedLog2N
MaxSharedLog2N == 2
\* a packed spectrum holds at most 2 * MaxSpectrumHalf scalars
MaxSpectrumHalf == 3

\* MixedAdd: the left operand is at most MaxUlps units of Q16 from zero
MaxUlps == 2

\* SpecSteps: handles of size 2^k, k = 0 .. MaxStepLog2N
MaxStepLog2N == 4

---------------------------------------------------------------------------
(* i32 arithmetic.                                                         *)

I32Max == 2147483647
I32Min == -I32Max - 1

Pow2(k) == 2 ^ k

\* i32::wrapping_add, on 16-bit limbs
wrapping_add(a, b) ==
    LET lo == (a % 65536) + (b % 65536)
        hi == (a \div 65536) + (b \div 65536) + (lo \div 65536)
    IN  (((hi + 32768) % 65536) - 32768) * 65536 + (lo % 65536)

\* whether a + b leaves the i32 range
add_overflows(a, b) ==
    LET lo == (a % 65536) + (b % 65536)
        hi == (a \div 65536) + (b \div 65536) + (lo \div 65536)
    IN  hi < -32768 \/ hi > 32767

\* i32::wrapping_sub, on 16-bit limbs
wrapping_sub(a, b) ==
    LET lo == (a % 65536) - (b % 65536)
        hi == (a \div 65536) - (b \div 65536) + (lo \div 65536)
    IN  (((hi + 32768) % 65536) - 32768) * 65536 + (lo % 65536)

\* whether a - b leaves the i32 range
sub_overflows(a, b) ==
    LET lo == (a % 65536) - (b % 65536)
        hi == (a \div 65536) - (b \div 65536) + (lo \div 65536)
    IN  hi < -32768 \/ hi > 32767

saturating_neg(a) == IF a = I32Min THEN I32Max ELSE -a

wrapping_neg(a) == IF a = I32Min THEN I32Min ELSE -a

\* a >> k for 0 <= k <= 31: arithmetic shift, floor(a / 2^k)
shr(a, k) == IF k > 15 THEN (a \div 32768) \div Pow2(k - 15) ELSE a \div Pow2(k)

\* a << k for 0 <= k <= 31: the bits shifted out are lost
shl(a, k) ==
    IF k = 0 THEN a
    ELSE (IF k < 31 THEN (a % Pow2(31 - k)) * Pow2(k) ELSE 0)
         + (IF (a \div Pow2(31 - k)) % 2 = 1 THEN I32Min ELSE 0)

\* The four bytes of an i32, the top one signed: a = b0 + 2^8 b1 + 2^16 b2 + 2^24 b3.
Limbs(a) == <<a % 256, (a \div 256) % 256, (a \div 65536) % 256, a \div 16777216>>

\* The columns of the schoolbook product of two limb vectors, column k
\* holding the sum of x[i] * y[j] over i + j = k (k = 0 .. 7), plus `offset`
\* added at bit `bit` (bit < 0: no offset).
Columns(x, y, bit) ==
    LET offset(k) == IF bit >= 0 /\ bit \div 8 = k THEN Pow2(bit % 8) ELSE 0
    IN  [k \in 0..7 |->
            offset(k) +
            CASE k = 0 -> x[1] * y[1]
              [] k = 1 -> x[1] * y[2] + x[2] * y[1]
              [] k = 2 -> x[1] * y[3] + x[2] * y[2] + x[3] * y[1]
              [] k = 3 -> x[1] * y[4] + x[2] * y[3] + x[3] * y[2] + x[4] * y[1]
              [] k = 4 -> x[2] * y[4] + x[3] * y[3] + x[4] * y[2]
              [] k = 5 -> x[3] * y[4] + x[4] * y[3]
              [] k = 6 -> x[4] * y[4]
              [] k = 7 -> 0]

\* The eight bytes (two's complement, little endian) of the i64 whose
\* columns are c: carries propagate upward with floor division.
RECURSIVE Carry(_, _, _)
Carry(c, k, carry) ==
    IF k > 7 THEN <<>>
    ELSE LET t == c[k] + carry
         IN  <<t % 256>> \o Carry(c, k + 1, t \div 256)

\* (i64 with bytes B) >> sh, narrowed to i32 (`as i32` keeps the low 32 bits)
ShiftNarrow(B, sh) ==
    LET q == sh \div 8
        r == sh % 8
        byte(k) == IF k > 7 THEN (IF B[8] >= 128 THEN 255 ELSE 0) ELSE B[k + 1]
        out(k) == (byte(k + q) \div Pow2(r)) + (byte(k + q + 1) % Pow2(r)) * Pow2(8 - r)
        top == IF out(3) >= 128 THEN out(3) - 256 ELSE out(3)
    IN  top * 16777216 + out(2) * 65536 + out(1) * 256 + out(0)

---------------------------------------------------------------------------
(* Fixed<FRAC>: src/fixed/types/fixed.rs.  A value is its store.           *)

from_bits(bits) == bits

to_bits(x) == x

\* Fixed::<FRAC>::from_int(value): value << FRAC
from_int(value, FRAC) == shl(value, FRAC)

\* scale_half dividing with `/ 2`, which rounds toward zero
scale_half_toward_zero(x) ==
    IF x < 0 THEN -(((-(x + 1)) \div 2) + ((-(x + 1)) % 2)) ELSE x \div 2

\* Fixed::scale_half: store >> 1
scale_half(x) == shr(x, 1)

\* convert rounding a down-scale to nearest instead of truncating it
convert_rounding(x, FRAC, TO_FRAC) ==
    IF TO_FRAC > FRAC THEN from_bits(shl(x, TO_FRAC - FRAC))
    ELSE IF TO_FRAC = FRAC THEN from_bits(x)
    ELSE from_bits(shr(x, FRAC - TO_FRAC) + (shr(x, FRAC - TO_FRAC - 1) % 2))

\* Fixed::<FRAC>::convert::<TO_FRAC>
convert(x, FRAC, TO_FRAC) ==
    IF TO_FRAC > FRAC THEN from_bits(shl(x, TO_FRAC - FRAC))
    ELSE from_bits(shr(x, FRAC - TO_FRAC))

\* Mul without the rounding offset
fixed_mul_truncating(a, b, F2) ==
    from_bits(ShiftNarrow(Carry(Columns(Limbs(a), Limbs(b), -1), 0, 0), F2))

\* Mul<Fixed<F2>> for Fixed<F1>: the i64 product, rounded by adding
\* 2^(F2-1) before the shift by F2 when F2 > 0, narrowed to i32.
fixed_mul(a, b, F2) ==
    from_bits(ShiftNarrow(Carry(Columns(Limbs(a), Limbs(b), F2 - 1), 0, 0), F2))

\* from_f64 with a cast that wraps where `as i32` saturates
from_f64_wrapping(w) ==
    IF w.half >= 1073741824 THEN from_bits(I32Min)
    ELSE IF w.half < -1073741824 THEN from_bits(I32Max)
    ELSE from_bits(2 * w.half + w.odd)

\* Fixed::<FRAC>::from_f64(value) for value = scaled / 2^FRAC exactly, where
\* the f64 product value * 2^FRAC is the integer 2 * w.half + w.odd:
\* round() leaves an integer as it is and `as i32` saturates.
from_f64(w) ==
    IF w.half >= 1073741824 THEN from_bits(I32Max)
    ELSE IF w.half < -1073741824 THEN from_bits(I32Min)
    ELSE from_bits(2 * w.half + w.odd)

\* Fixed::<FRAC>::from_f64(value) for value * 2^FRAC = num / 2^sh exactly and
\* inside the i32 range: round() rounds half away from zero.
from_f64_dyadic(num, sh) ==
    LET mag == IF num < 0 THEN -num ELSE num
        rounded == mag \div Pow2(sh) + (IF 2 * (mag % Pow2(sh)) >= Pow2(sh) THEN 1 ELSE 0)
    IN  from_bits(IF num < 0 THEN -rounded ELSE rounded)

\* Add converting the left operand to the right operand's scale
fixed_add_rescale_left(a, b, F1, F2) == wrapping_add(to_bits(convert(a, F1, F2)), b)

\* Add<Fixed<F2>> for Fixed<F1>: the right operand is converted to F1
fixed_add(a, b, F1, F2) == wrapping_add(a, to_bits(convert(b, F2, F1)))

fixed_add_overflows(a, b, F1, F2) == add_overflows(a, to_bits(convert(b, F2, F1)))

\* Sub converting the left operand to the right operand's scale
fixed_sub_rescale_left(a, b, F1, F2) == from_bits(wrapping_sub(to_bits(convert(a, F1, F2)), b))

\* Sub<Fixed<F2>> for Fixed<F1>
fixed_sub(a, b, F1, F2) == from_bits(wrapping_sub(a, to_bits(convert(b, F2, F1))))

fixed_sub_overflows(a, b, F1, F2) == sub_overflows(a, to_bits(convert(b, F2, F1)))

---------------------------------------------------------------------------
(* ComplexFixed<FRAC>: src/fixed/types/fixed_complex.rs.                   *)

ComplexFixed_new(re, im) == [re |-> re, im |-> im]

\* conj negating with wrapping_neg
conj_wrapping(z) == [re |-> z.re, im |-> from_bits(wrapping_neg(to_bits(z.im)))]

\* ComplexFixed::conj: the imaginary store negated, saturating
conj(z) == [re |-> z.re, im |-> from_bits(saturating_neg(to_bits(z.im)))]

\* ComplexFixed::scale_half
complex_scale_half(z) ==
    [re |-> from_bits(shr(to_bits(z.re), 1)), im |-> from_bits(shr(to_bits(z.im), 1))]

\* Add<ComplexFixed<F2>> for ComplexFixed<F1>
complex_add(a, b, F1, F2) ==
    [re |-> fixed_add(a.re, b.re, F1, F2), im |-> fixed_add(a.im, b.im, F1, F2)]

complex_add_overflows(a, b, F1, F2) ==
    fixed_add_overflows(a.re, b.re, F1, F2) \/ fixed_add_overflows(a.im, b.im, F1, F2)

\* Sub<ComplexFixed<F2>> for ComplexFixed<F1>
complex_sub(a, b, F1, F2) ==
    [re |-> fixed_sub(a.re, b.re, F1, F2), im |-> fixed_sub(a.im, b.im, F1, F2)]

complex_sub_overflows(a, b, F1, F2) ==
    fixed_sub_overflows(a.re, b.re, F1, F2) \/ fixed_sub_overflows(a.im, b.im, F1, F2)

\* the complex product with every multiplication shifting by the
\* precision of the left operand
complex_mul_data_shift(a, b, F1, F2) ==
    [re |-> fixed_sub(fixed_mul(a.re, b.re, F1), fixed_mul(a.im, b.im, F1), F1, F1),
     im |-> fixed_add(fixed_mul(a.re, b.im, F1), fixed_mul(a.im, b.re, F1), F1, F1)]

\* Mul<ComplexFixed<F2>> for ComplexFixed<F1>: re = ac - bd, im = ad + bc
complex_mul(a, b, F1, F2) ==
    [re |-> fixed_sub(fixed_mul(a.re, b.re, F2), fixed_mul(a.im, b.im, F2), F1, F1),
     im |-> fixed_add(fixed_mul(a.re, b.im, F2), fixed_mul(a.im, b.re, F2), F1, F1)]

complex_mul_overflows(a, b, F1, F2) ==
    \/ fixed_sub_overflows(fixed_mul(a.re, b.re, F2), fixed_mul(a.im, b.im, F2), F1, F1)
    \/ fixed_add_overflows(fixed_mul(a.re, b.im, F2), fixed_mul(a.im, b.re, F2), F1, F1)

---------------------------------------------------------------------------
(* Table precomputation: src/fixed/core.rs, src/float/core.rs.             *)

TWIDDLE_FRAC == 31

\* usize::is_power_of_two
is_power_of_two(x) == \E k \in 0..30 : x = Pow2(k)

\* cos and sin of -2 pi j / 32, j = 0 .. 15, times 2^31 and rounded to the
\* nearest integer as f64 arithmetic gives them: the integer is
\* 2 * half + odd (2^31 itself is not an i32).
CosHalf == <<1073741824, 1053110176, 992008094, 892783698, 759250125, 596538995,
             410903206, 209476638, 0, -209476638, -410903207, -596538996,
             -759250125, -892783698, -992008095, -1053110176>>
CosOdd == <<0, 0, 1, 0, 0, 1, 1, 0, 0, 0, 1, 1, 0, 0, 1, 0>>
SinHalf == <<0, -209476638, -410903207, -596538996, -759250125, -892783698,
             -992008095, -1053110176, -1073741824, -1053110176, -992008095,
             -892783698, -759250125, -596538996, -410903207, -209476638>>
SinOdd == <<0, 0, 1, 1, 0, 0, 1, 0, 0, 0, 1, 0, 0, 1, 1, 0>>

\* (angle.sin(), angle.cos()) * 2^31 for angle = -2 pi j / size, size a
\* power of two up to 32
sin_cos(j, size) ==
    LET t == j * (32 \div size) + 1
    IN  [sin |-> [half |-> SinHalf[t], odd |-> SinOdd[t]],
         cos |-> [half |-> CosHalf[t], odd |-> CosOdd[t]]]

\* A table write table[i] = v (i counted from 0): out of bounds panics.
\* A table under construction is [st, tab]: st is "ok", "panic" (an index
\* out of bounds) or "hang" (a loop that never ends).
Store(t, i, v) ==
    IF t.st # "ok" THEN t
    ELSE IF i >= Len(t.tab) THEN [st |-> "panic", tab |-> t.tab]
    ELSE [st |-> "ok", tab |-> [t.tab EXCEPT ![i + 1] = v]]

\* fixed precompute_twiddles(twiddles, size): entries 0 .. size/2 - 1
RECURSIVE twiddles_from(_, _, _)
twiddles_from(t, j, size) ==
    IF j >= size \div 2 \/ t.st # "ok" THEN t
    ELSE twiddles_from(
            Store(t, j, ComplexFixed_new(from_f64(sin_cos(j, size).cos),
                                         from_f64(sin_cos(j, size).sin))),
            j + 1, size)

precompute_twiddles(tw, size) == twiddles_from([st |-> "ok", tab |-> tw], 0, size)

\* bitrev_while without the halving of k: while j >= k { j -= k }
RECURSIVE bitrev_while_no_halving(_, _)
bitrev_while_no_halving(j, k) ==
    IF j >= k
    THEN (IF k = 0 THEN [hang |-> TRUE, j |-> j, k |-> k]
          ELSE bitrev_while_no_halving(j - k, k))
    ELSE [hang |-> FALSE, j |-> j, k |-> k]

\* the inner loop of precompute_bitrev: while j >= k { j -= k; k >>= 1 }.
\* With k = 0 the loop never ends (j >= 0 always holds for a usize).
RECURSIVE bitrev_while(_, _)
bitrev_while(j, k) ==
    IF j >= k
    THEN (IF k = 0 THEN [hang |-> TRUE, j |-> j, k |-> k]
          ELSE bitrev_while(j - k, k \div 2))
    ELSE [hang |-> FALSE, j |-> j, k |-> k]

\* the outer loop of precompute_bitrev: for i in 1..size
RECURSIVE bitrev_from(_, _, _, _)
bitrev_from(t, i, j, size) ==
    IF i >= size \/ t.st # "ok" THEN t
    ELSE LET w == bitrev_while(j, size \div 2)
         IN  IF w.hang THEN [st |-> "hang", tab |-> t.tab]
             ELSE bitrev_from(Store(t, i, w.j + w.k), i + 1, w.j + w.k, size)

\* precompute_bitrev(bitrev, size)
precompute_bitrev(br, size) ==
    bitrev_from(Store([st |-> "ok", tab |-> br], 0, 0), 1, 0, size)

\* An f32 of the floating-point engine's twiddle table: the value of cosf or
\* sinf at -2 pi j / size, kept as the call that made it.
Complex32_new(re, im) == [re |-> re, im |-> im]

\* float precompute_twiddles(twiddles, size): entries 0 .. size/2 - 1
RECURSIVE float_twiddles_from(_, _, _)
float_twiddles_from(t, j, size) ==
    IF j >= size \div 2 \/ t.st # "ok" THEN t
    ELSE float_twiddles_from(
            Store(t, j, Complex32_new([f |-> "cos", j |-> j, n |-> size],
                                      [f |-> "sin", j |-> j, n |-> size])),
            j + 1, size)

float_precompute_twiddles(tw, size) ==
    float_twiddles_from([st |-> "ok", tab |-> tw], 0, size)

\* float precompute_bitrev(bitrev, size): the same loops as the fixed one
float_precompute_bitrev(br, size) ==
    bitrev_from(Store([st |-> "ok", tab |-> br], 0, 0), 1, 0, size)

---------------------------------------------------------------------------
(* Constructors.  Each gives [result, twiddles, bitrev]: the Result of new *)
(* ("Ok", an FftError, or "panic"/"hang" when new does not return) and the *)
(* caller's tables as new leaves them.                                     *)

\* precompute(): the bit-reversal table first, then the twiddles
Precomputed(b, t, tw, br) ==
    IF b.st # "ok" THEN [result |-> b.st, twiddles |-> tw, bitrev |-> b.tab]
    ELSE IF t.st # "ok" THEN [result |-> t.st, twiddles |-> t.tab, bitrev |-> b.tab]
    ELSE [result |-> "Ok", twiddles |-> t.tab, bitrev |-> b.tab]

Failed(err, tw, br) == [result |-> err, twiddles |-> tw, bitrev |-> br]

\* fixed CplxFft::precompute
fixed_CplxFft_precompute(tw, br, size) ==
    Precomputed(precompute_bitrev(br, size), precompute_twiddles(tw, size), tw, br)

\* fixed CplxFft::new with the capacity checks made before the power-of-two check
fixed_CplxFft_new_caps_first(tw, br, size) ==
    IF Len(tw) < size \div 2 THEN Failed("BufferTooSmall", tw, br)
    ELSE IF Len(br) < size THEN Failed("BufferTooSmall", tw, br)
    ELSE IF ~is_power_of_two(size) THEN Failed("NotPowerOfTwo", tw, br)
    ELSE fixed_CplxFft_precompute(tw, br, size)

\* fixed CplxFft::new
fixed_CplxFft_new(tw, br, size) ==
    IF ~is_power_of_two(size) THEN Failed("NotPowerOfTwo", tw, br)
    ELSE IF Len(tw) < size \div 2 THEN Failed("BufferTooSmall", tw, br)
    ELSE IF Len(br) < size THEN Failed("BufferTooSmall", tw, br)
    ELSE fixed_CplxFft_precompute(tw, br, size)

\* fixed RealFft::precompute: bitrev for size/2, twiddles for size
fixed_RealFft_precompute(tw, br, size) ==
    Precomputed(precompute_bitrev(br, size \div 2), precompute_twiddles(tw, size), tw, br)

\* RealFft::new filling the twiddles before it tests the capacity of bitrev
fixed_RealFft_new_fills_first(tw, br, size) ==
    IF ~is_power_of_two(size) THEN Failed("NotPowerOfTwo", tw, br)
    ELSE IF Len(tw) < size \div 2 THEN Failed("BufferTooSmall", tw, br)
    ELSE IF Len(br) < size \div 2
         THEN Failed("BufferTooSmall", precompute_twiddles(tw, size).tab, br)
    ELSE fixed_RealFft_precompute(tw, br, size)

\* fixed RealFft::new
fixed_RealFft_new(tw, br, size) ==
    IF ~is_power_of_two(size) THEN Failed("NotPowerOfTwo", tw, br)
    ELSE IF Len(tw) < size \div 2 \/ Len(br) < size \div 2
         THEN Failed("BufferTooSmall", tw, br)
    ELSE fixed_RealFft_precompute(tw, br, size)

\* float CplxFft::precompute: the two loops written out in the method
float_CplxFft_precompute(tw, br, size) ==
    Precomputed(bitrev_from(Store([st |-> "ok", tab |-> br], 0, 0), 1, 0, size),
                float_twiddles_from([st |-> "ok", tab |-> tw], 0, size), tw, br)

\* float CplxFft::new
float_CplxFft_new(tw, br, size) ==
    IF ~is_power_of_two(size) THEN Failed("NotPowerOfTwo", tw, br)
    ELSE IF Len(tw) < size \div 2 \/ Len(br) < size THEN Failed("BufferTooSmall", tw, br)
    ELSE float_CplxFft_precompute(tw, br, size)

\* float RealFft::precompute
float_RealFft_precompute(tw, br, size) ==
    Precomputed(float_precompute_bitrev(br, size \div 2),
                float_precompute_twiddles(tw, size), tw, br)

\* float RealFft::new
float_RealFft_new(tw, br, size) ==
    IF ~is_power_of_two(size) THEN Failed("NotPowerOfTwo", tw, br)
    ELSE IF Len(tw) < size \div 2 \/ Len(br) < size \div 2
         THEN Failed("BufferTooSmall", tw, br)
    ELSE float_RealFft_precompute(tw, br, size)

---------------------------------------------------------------------------
(* float CplxFft::process: src/float/complex.rs.  The f32 arithmetic is    *)
(* not evaluated: a call is the sequence of the operations it performs on  *)
(* the elements of the buffer.                                             *)

\* 1. the bit-reverse permutation: for i in 1..(self.n - 1)
RECURSIVE float_swaps(_, _, _)
float_swaps(br, i, size) ==
    IF i >= size - 1 THEN <<>>
    ELSE (IF i < br[i + 1] THEN <<[op |-> "swap", a |-> i, b |-> br[i + 1]]>> ELSE <<>>)
         \o float_swaps(br, i + 1, size)

\* 2. the butterflies: while stride < self.n { for j { for i { ... } } },
\* each storing a + t and a - t as they are
RECURSIVE float_butterflies(_, _, _, _, _, _)
float_butterflies(size, stride, tw_index, j, i, inverse) ==
    IF stride >= size THEN <<>>
    ELSE <<[op |-> "butterfly", a |-> j + i, b |-> j + i + stride, tw |-> i * tw_index,
            conj |-> inverse, half |-> FALSE]>>
         \o (IF i + 1 < stride
             THEN float_butterflies(size, stride, tw_index, j, i + 1, inverse)
             ELSE IF j + 2 * stride < size - stride
             THEN float_butterflies(size, stride, tw_index, j + 2 * stride, 0, inverse)
             ELSE float_butterflies(size, 2 * stride, tw_index \div 2, 0, 0, inverse))

\* 3. if inverse: *x = x.scale(1.0 / n) for every x of the buffer
float_scales(size) == [k \in 1..size |-> [op |-> "scale", a |-> k - 1, by |-> <<1, size>>]]

\* float CplxFft::process(buffer, inverse) of a handle of the given size on a
\* buffer of len elements
float_CplxFft_process(br, size, len, inverse) ==
    IF len # size THEN [result |-> "SizeMismatch", ops |-> <<>>]
    ELSE [result |-> "Ok",
          ops |-> float_swaps(br, 1, size)
                  \o float_butterflies(size, 1, size \div 2, 0, 0, inverse)
                  \o (IF inverse THEN float_scales(size) ELSE <<>>)]

---------------------------------------------------------------------------
(* float RealFft::process_inv: src/float/real.rs, the weaving that comes   *)
(* before the inner transform.  The samples are integer-valued and even,   *)
(* so every f32 sum and every scale(0.5) below is exact.                   *)

\* the block "Ponto N/4":
\* tmp = val.conj(); even = (val + tmp).scale(0.5); odd = (val - tmp).scale(0.5);
\* tmp_i_odd = Complex32::new(-odd.im, odd.re); cbuffer[n_quarter] = even + tmp_i_odd
float_weave_quarter(val) ==
    LET tmp == Complex32_new(val.re, 0 - val.im)
        even == Complex32_new((val.re + tmp.re) \div 2, (val.im + tmp.im) \div 2)
        odd == Complex32_new((val.re - tmp.re) \div 2, (val.im - tmp.im) \div 2)
        tmp_i_odd == Complex32_new(0 - odd.im, odd.re)
    IN  Complex32_new(even.re + tmp_i_odd.re, even.im + tmp_i_odd.im)

\* the block "Ponto 0": Complex32::new((val.re + val.im) * 0.5, (val.re - val.im) * 0.5)
float_weave_zero(val) == Complex32_new((val.re + val.im) \div 2, (val.re - val.im) \div 2)

\* process_inv(buffer) up to the call of the inner transform, for the sizes
\* 2 and 4, whose loop `for i in 1..n_quarter` is empty: the complex buffer
\* handed to radix_2_dit_fft_core
float_RealFft_weave(buf, size) ==
    IF Len(buf) # size THEN [result |-> "SizeMismatch", cbuffer |-> <<>>]
    ELSE LET n_half == size \div 2
             n_quarter == n_half \div 2
             cbuffer == [k \in 1..n_half |-> Complex32_new(buf[2 * k - 1], buf[2 * k])]
             quarter == [cbuffer EXCEPT ![n_quarter + 1] = float_weave_quarter(@)]
         IN  [result |-> "Ok", cbuffer |-> [quarter EXCEPT ![1] = float_weave_zero(@)]]

---------------------------------------------------------------------------
(* Construction: the caller allocates two zeroed tables of any capacity    *)
(* and calls new with any size.                                            *)

Engines == {"fixed_cplx", "fixed_real", "float_cplx", "float_real"}

MaxN == Pow2(MaxLog2N)

\* the f32 0.0
F32Zero == [f |-> "zero", j |-> 0, n |-> 0]

\* ComplexFixed::new(from_bits(0), from_bits(0)), Complex32::new(0., 0.)
ZeroTwiddle(e) ==
    IF e \in {"fixed_cplx", "fixed_real"} THEN ComplexFixed_new(from_bits(0), from_bits(0))
    ELSE Complex32_new(F32Zero, F32Zero)

\* vec![zero; cap]: the twiddle table as the tests allocate it
ZeroTwiddles(e, cap) == [i \in 1..cap |-> ZeroTwiddle(e)]

\* vec![0; cap]
ZeroBitrev(cap) == [i \in 1..cap |-> 0]

\* no scalar or layout function has been called
NoCalc == [op |-> "none", in |-> <<>>, out |-> <<>>]

NoBuffer ==
    /\ buffer = <<>>
    /\ orig = <<>>
    /\ hist = <<>>
    /\ proc_result = "none"
    /\ prev = <<>>
    /\ thread = <<>>
    /\ calc = NoCalc

InitNew ==
    /\ overflow_checks \in BOOLEAN
    /\ engine \in Engines
    /\ \E tcap \in 0..MaxN : twiddles = ZeroTwiddles(engine, tcap)
    /\ \E bcap \in 0..MaxN : bitrev = ZeroBitrev(bcap)
    /\ n = 0
    /\ new_result = "none"
    /\ NoBuffer

Constructed(size, r) ==
    /\ n' = size
    /\ new_result' = r.result
    /\ twiddles' = r.twiddles
    /\ bitrev' = r.bitrev
    /\ UNCHANGED <<overflow_checks, engine, buffer, orig, hist, proc_result, prev, thread, calc>>

NewFixedCplx(size) ==
    /\ engine = "fixed_cplx" /\ new_result = "none"
    /\ Constructed(size, fixed_CplxFft_new(twiddles, bitrev, size))

NewFixedReal(size) ==
    /\ engine = "fixed_real" /\ new_result = "none"
    /\ Constructed(size, fixed_RealFft_new(twiddles, bitrev, size))

NewFloatCplx(size) ==
    /\ engine = "float_cplx" /\ new_result = "none"
    /\ Constructed(size, float_CplxFft_new(twiddles, bitrev, size))

NewFloatReal(size) ==
    /\ engine = "float_real" /\ new_result = "none"
    /\ Constructed(size, float_RealFft_new(twiddles, bitrev, size))

NextNew ==
    \E size \in 0..MaxN :
        \/ NewFixedCplx(size)
        \/ NewFixedReal(size)
        \/ NewFloatCplx(size)
        \/ NewFloatReal(size)

SpecNew == InitNew /\ [][NextNew]_vars

---------------------------------------------------------------------------
(* Claims about construction, checked under SpecNew.                       *)

\* x is a power of two: x >= 1 and no odd number above 1 divides x
HasNoOddDivisor(x) == x >= 1 /\ \A d \in 3..x : d % 2 = 1 => x % d # 0

\* the tables hold what new found in them
TablesUntouched ==
    /\ twiddles = ZeroTwiddles(engine, Len(twiddles))
    /\ bitrev = ZeroBitrev(Len(bitrev))

\* C1: CplxFft::new (fixed and float) returns NotPowerOfTwo whenever n is not
\* a power of two, whatever the capacities; otherwise BufferTooSmall when
\* twiddles.len() < n/2 or bitrev.len() < n; otherwise Ok, with bitrev[0..n)
\* and twiddles[0..n/2) filled (bitrev[0..n) holds each of 0..n-1 once, no
\* twiddle is the zero the caller put there, the first is 1 + 0i).
C1_CplxNewResult ==
    (new_result # "none" /\ engine \in {"fixed_cplx", "float_cplx"}) =>
        IF ~HasNoOddDivisor(n) THEN new_result = "NotPowerOfTwo"
        ELSE IF Len(twiddles) < n \div 2 \/ Len(bitrev) < n
             THEN new_result = "BufferTooSmall"
        ELSE /\ new_result = "Ok"
             /\ {bitrev[i] : i \in 1..n} = 0..(n - 1)
             /\ \A j \in 1..(n \div 2) : twiddles[j] # ZeroTwiddle(engine)
             /\ (engine = "fixed_cplx" /\ n >= 2) => twiddles[1] = [re |-> I32Max, im |-> 0]
             /\ (engine = "float_cplx" /\ n >= 2) => twiddles[1].re = [f |-> "cos", j |-> 0, n |-> n]

\* C1 witness: new returned Ok on tables of exactly the minimum capacity
C1_Witness ==
    /\ engine = "fixed_cplx" /\ new_result = "Ok" /\ n = 4
    /\ Len(twiddles) = 2 /\ Len(bitrev) = 4
    /\ bitrev = <<0, 2, 1, 3>>
    /\ twiddles = <<[re |-> I32Max, im |-> 0], [re |-> 0, im |-> I32Min]>>

\* C2: RealFft::new returns exactly one of Ok, NotPowerOfTwo, BufferTooSmall
\* for every n and every pair of capacities: construction never faults.
C2_RealNewNeverFaults ==
    engine \in {"fixed_real", "float_real"} =>
        new_result \in {"none", "Ok", "NotPowerOfTwo", "BufferTooSmall"}

\* the m low bits of i, reversed
RECURSIVE ReverseBits(_, _)
ReverseBits(i, m) ==
    IF m = 0 THEN 0 ELSE (i % 2) * Pow2(m - 1) + ReverseBits(i \div 2, m - 1)

\* the size of the bit-reversal table a constructed handle uses
BitrevSize == IF engine \in {"fixed_cplx", "float_cplx"} THEN n ELSE n \div 2

\* C7: for every power-of-two N = 2^m, precompute_bitrev fills bitrev[i],
\* i in 0..N, with the m low bits of i reversed; for N = 8 the table is
\* [0,4,2,6,1,5,3,7]; the table is its own inverse.
C7_BitReversal ==
    (new_result = "Ok" /\ BitrevSize >= 1) =>
        LET size == BitrevSize
            m == CHOOSE e \in 0..30 : Pow2(e) = size
        IN  /\ \A i \in 0..(size - 1) : bitrev[i + 1] = ReverseBits(i, m)
            /\ \A i \in 0..(size - 1) : bitrev[bitrev[i + 1] + 1] = i
            /\ size = 8 => SubSeq(bitrev, 1, 8) = <<0, 4, 2, 6, 1, 5, 3, 7>>

\* C7 witness: the table of N = 8 has been built
C7_Witness ==
    /\ new_result = "Ok" /\ engine = "fixed_cplx" /\ n = 8
    /\ bitrev = <<0, 4, 2, 6, 1, 5, 3, 7>>

---------------------------------------------------------------------------
(* process: src/fixed/core.rs, src/fixed/complex.rs, src/fixed/real.rs.    *)
(* A call is a sequence of steps, one per access to the buffer: the length *)
(* test, one step per index of the bit-reverse permutation, one per        *)
(* butterfly, one per element pair of the real FFT's unweaving.  The call  *)
(* as a whole is the steps run to the end.                                 *)

\* const FRAC: u32 = 15 of the tests: the samples are Q15
FRAC == 15

\* usize::MAX, the value 0 - 1 wraps to in a build without overflow checks.
\* It stands above every table length, so a loop bounded by it ends at the
\* first index outside a table; TLC's largest integer stands for it.
usize_MAX == I32Max

\* a handle: the fields of CplxFft / RealFft, and the build they run in
Handle(e, size, tw, br, checks) ==
    [engine |-> e, n |-> size, twiddles |-> tw, bitrev |-> br, checks |-> checks,
     frac |-> FRAC]

is_real(h) == h.engine = "fixed_real"

\* a real handle passing the stride 4 to the core
twiddle_stride_4(h) == IF is_real(h) THEN 4 ELSE 1

\* the twiddle_stride the handle passes to the core
twiddle_stride(h) == IF is_real(h) THEN 2 ELSE 1

\* the length of the ComplexFixed slice the core works on: the buffer itself,
\* or the real buffer seen as self.n / 2 pairs (slice::from_raw_parts_mut)
cbuffer_len(h, buf) == IF is_real(h) THEN h.n \div 2 ELSE Len(buf)

\* cbuffer[k]
cbuffer_get(h, buf, k) ==
    IF is_real(h) THEN ComplexFixed_new(buf[2 * k + 1], buf[2 * k + 2]) ELSE buf[k + 1]

\* cbuffer[k] = z
cbuffer_set(h, buf, k, z) ==
    IF is_real(h) THEN [buf EXCEPT ![2 * k + 1] = z.re, ![2 * k + 2] = z.im]
    ELSE [buf EXCEPT ![k + 1] = z]

\* the position of a call that has just been made
Entered(buf, inverse) ==
    [pc |-> "enter", ret |-> "none", buf |-> buf, inverse |-> inverse,
     i |-> 0, j |-> 0, hi |-> 0, stride |-> 0, tw_index |-> 0]

Return(s, r) == [s EXCEPT !.pc = "done", !.ret = r]

\* an index out of bounds, or an overflow in a build that checks for it
Panic(s) == Return(s, "panic")

\* radix_2_dit_fft_core is entered: n = buffer.len(), and the bound n - 1 of
\* the permutation loop
core_enter(h, s) ==
    LET len == cbuffer_len(h, s.buf)
    IN  IF len = 0
        THEN (IF h.checks THEN Panic(s)
              ELSE [s EXCEPT !.pc = "permute", !.i = 1, !.hi = usize_MAX])
        ELSE [s EXCEPT !.pc = "permute", !.i = 1, !.hi = len - 1]

\* radix_2_dit_fft_core has returned
core_exit(h, s) ==
    IF is_real(h) /\ ~s.inverse THEN [s EXCEPT !.pc = "dc"] ELSE Return(s, "Ok")

\* the stage loop stopping one stage early: while 2 * stride < n
stage_enter_one_short(h, s) ==
    IF 2 * s.stride < cbuffer_len(h, s.buf)
    THEN [s EXCEPT !.pc = "butterfly", !.j = 0, !.i = 0]
    ELSE core_exit(h, s)

\* while stride < n
stage_enter(h, s) ==
    IF s.stride < cbuffer_len(h, s.buf)
    THEN [s EXCEPT !.pc = "butterfly", !.j = 0, !.i = 0]
    ELSE core_exit(h, s)

\* the permutation loop swapping at every index, without `if i < j`
permute_step_every_index(h, s) ==
    LET len == cbuffer_len(h, s.buf)
    IN  IF s.i >= s.hi
        THEN stage_enter(h, [s EXCEPT !.stride = 1, !.tw_index = len \div 2])
        ELSE IF s.i >= Len(h.bitrev) THEN Panic(s)
        ELSE LET j == h.bitrev[s.i + 1]
             IN  IF j >= len \/ s.i >= len THEN Panic(s)
                 ELSE [s EXCEPT !.i = s.i + 1,
                                !.buf = cbuffer_set(h,
                                          cbuffer_set(h, s.buf, s.i, cbuffer_get(h, s.buf, j)),
                                          j, cbuffer_get(h, s.buf, s.i))]

\* one turn of the permutation loop: for i in 1..(n - 1)
permute_step(h, s) ==
    LET len == cbuffer_len(h, s.buf)
    IN  IF s.i >= s.hi
        THEN stage_enter(h, [s EXCEPT !.stride = 1, !.tw_index = len \div 2])
        ELSE IF s.i >= Len(h.bitrev) THEN Panic(s)
        ELSE LET j == h.bitrev[s.i + 1]
             IN  IF s.i < j
                 THEN (IF j >= len \/ s.i >= len THEN Panic(s)
                       ELSE [s EXCEPT !.i = s.i + 1,
                                      !.buf = cbuffer_set(h,
                                                cbuffer_set(h, s.buf, s.i, cbuffer_get(h, s.buf, j)),
                                                j, cbuffer_get(h, s.buf, s.i))])
                 ELSE [s EXCEPT !.i = s.i + 1]

\* the loops around the butterfly move on:
\* for j in (0..jmax).step_by(stride << 1) { for i in 0..stride
butterfly_next(h, s) ==
    IF s.i + 1 < s.stride THEN [s EXCEPT !.i = s.i + 1]
    ELSE IF s.j + 2 * s.stride < cbuffer_len(h, s.buf) - s.stride
         THEN [s EXCEPT !.j = s.j + 2 * s.stride, !.i = 0]
    ELSE stage_enter(h, [s EXCEPT !.stride = 2 * s.stride, !.tw_index = s.tw_index \div 2])

\* the butterfly with the halving of the inverse transform left out
butterfly_no_scale(a, t, inverse, F) ==
    [v1 |-> complex_add(a, t, F, F), v2 |-> complex_sub(a, t, F, F)]

\* v1 = a + t, v2 = a - t, both halved in the inverse transform
butterfly(a, t, inverse, F) ==
    LET v1 == complex_add(a, t, F, F)
        v2 == complex_sub(a, t, F, F)
    IN  IF inverse THEN [v1 |-> complex_scale_half(v1), v2 |-> complex_scale_half(v2)]
        ELSE [v1 |-> v1, v2 |-> v2]

\* one butterfly of the core
butterfly_step(h, s) ==
    LET len == cbuffer_len(h, s.buf)
        k == s.i * s.tw_index * twiddle_stride(h)
        index == s.j + s.i
    IN  IF k >= Len(h.twiddles) \/ index + s.stride >= len THEN Panic(s)
        ELSE LET w == IF s.inverse THEN conj(h.twiddles[k + 1]) ELSE h.twiddles[k + 1]
                 a == cbuffer_get(h, s.buf, index)
                 b == cbuffer_get(h, s.buf, index + s.stride)
                 t == complex_mul(b, w, h.frac, TWIDDLE_FRAC)
                 v == butterfly(a, t, s.inverse, h.frac)
             IN  IF h.checks /\ (\/ complex_mul_overflows(b, w, h.frac, TWIDDLE_FRAC)
                                 \/ complex_add_overflows(a, t, h.frac, h.frac)
                                 \/ complex_sub_overflows(a, t, h.frac, h.frac))
                 THEN Panic(s)
                 ELSE butterfly_next(h,
                        [s EXCEPT !.buf = cbuffer_set(h, cbuffer_set(h, s.buf, index, v.v1),
                                                      index + s.stride, v.v2)])

\* CplxFft::process, RealFft::rfft, RealFft::irfft are entered: the length test
process_enter(h, s) ==
    IF Len(s.buf) # h.n THEN Return(s, "SizeMismatch")
    ELSE IF is_real(h) /\ s.inverse THEN [s EXCEPT !.pc = "dc"]
    ELSE core_enter(h, s)

\* the element 0 of the real FFT: (dc, nyquist) after the forward core,
\* and back to the first pair before the inverse core
dc_step(h, s) ==
    IF cbuffer_len(h, s.buf) = 0 THEN Panic(s)
    ELSE LET val == cbuffer_get(h, s.buf, 0)
             dc == fixed_add(val.re, val.im, h.frac, h.frac)
             nyquist == fixed_sub(val.re, val.im, h.frac, h.frac)
         IN  IF h.checks /\ (\/ fixed_add_overflows(val.re, val.im, h.frac, h.frac)
                             \/ fixed_sub_overflows(val.re, val.im, h.frac, h.frac))
             THEN Panic(s)
             ELSE [s EXCEPT !.pc = "quarter",
                            !.buf = cbuffer_set(h, s.buf, 0,
                                      IF s.inverse
                                      THEN ComplexFixed_new(scale_half(dc), scale_half(nyquist))
                                      ELSE ComplexFixed_new(dc, nyquist))]

\* cbuffer[n_quarter] = cbuffer[n_quarter].conj() with the conjugation left out
quarter_step_no_conj(h, s) ==
    IF (h.n \div 2) \div 2 >= cbuffer_len(h, s.buf) THEN Panic(s)
    ELSE [s EXCEPT !.pc = "weave", !.i = 1]

\* cbuffer[n_quarter] = cbuffer[n_quarter].conj()
quarter_step(h, s) ==
    LET n_quarter == (h.n \div 2) \div 2
    IN  IF n_quarter >= cbuffer_len(h, s.buf) THEN Panic(s)
        ELSE [s EXCEPT !.pc = "weave", !.i = 1,
                       !.buf = cbuffer_set(h, s.buf, n_quarter,
                                           conj(cbuffer_get(h, s.buf, n_quarter)))]

\* the unweaving loop has ended
weave_exit(h, s) == IF s.inverse THEN core_enter(h, s) ELSE Return(s, "Ok")

\* tmp = I * tmp1, the rotation by 90 degrees:
\* ComplexFixed::new(Fixed::from_bits(tmp1.im.to_bits().wrapping_neg()), tmp1.re)
rotate(tmp1) == ComplexFixed_new(from_bits(wrapping_neg(to_bits(tmp1.im))), tmp1.re)

\* one turn of the unweaving loop of rfft, or of the reweaving loop of irfft:
\* for i in 1..n_quarter
weave_step(h, s) ==
    LET n_half == h.n \div 2
        n_quarter == n_half \div 2
        idx_a == s.i
        idx_b == n_half - s.i
    IN  IF s.i >= n_quarter THEN weave_exit(h, s)
        ELSE IF idx_b >= cbuffer_len(h, s.buf) \/ s.i >= Len(h.twiddles) THEN Panic(s)
        ELSE LET val_a == cbuffer_get(h, s.buf, idx_a)
                 val_b_conj == conj(cbuffer_get(h, s.buf, idx_b))
                 even == complex_scale_half(complex_add(val_a, val_b_conj, h.frac, h.frac))
                 odd == complex_scale_half(complex_sub(val_a, val_b_conj, h.frac, h.frac))
                 w == IF s.inverse THEN conj(h.twiddles[s.i + 1]) ELSE h.twiddles[s.i + 1]
                 tmp1 == complex_mul(odd, w, h.frac, TWIDDLE_FRAC)
                 tmp == rotate(tmp1)
                 minus == complex_sub(even, tmp, h.frac, h.frac)
                 plus == complex_add(even, tmp, h.frac, h.frac)
                 minus_overflows == complex_sub_overflows(even, tmp, h.frac, h.frac)
                 plus_overflows == complex_add_overflows(even, tmp, h.frac, h.frac)
                 res_a == IF s.inverse THEN plus ELSE minus
                 res_b == conj(IF s.inverse THEN minus ELSE plus)
                 a_stored == [s EXCEPT !.buf = cbuffer_set(h, s.buf, idx_a, res_a)]
             IN  IF h.checks /\ (\/ complex_add_overflows(val_a, val_b_conj, h.frac, h.frac)
                                 \/ complex_sub_overflows(val_a, val_b_conj, h.frac, h.frac)
                                 \/ complex_mul_overflows(odd, w, h.frac, TWIDDLE_FRAC)
                                 \/ (IF s.inverse THEN plus_overflows ELSE minus_overflows))
                 THEN Panic(s)
                 ELSE IF h.checks /\ (IF s.inverse THEN minus_overflows ELSE plus_overflows)
                 THEN Panic(a_stored)
                 ELSE [a_stored EXCEPT !.i = s.i + 1,
                                       !.buf = cbuffer_set(h, a_stored.buf, idx_b, res_b)]

\* the next step of a call that has not returned
step(h, s) ==
    CASE s.pc = "enter" -> process_enter(h, s)
      [] s.pc = "permute" -> permute_step(h, s)
      [] s.pc = "butterfly" -> butterfly_step(h, s)
      [] s.pc = "dc" -> dc_step(h, s)
      [] s.pc = "quarter" -> quarter_step(h, s)
      [] s.pc = "weave" -> weave_step(h, s)

RECURSIVE run(_, _)
run(h, s) == IF s.pc = "done" THEN s ELSE run(h, step(h, s))

\* process(buffer, inverse) run from entry to return: its result and the
\* buffer it leaves
process(h, buf, inverse) ==
    LET s == run(h, Entered(buf, inverse))
    IN  [result |-> s.ret, buffer |-> s.buf]

---------------------------------------------------------------------------
(* One caller: it allocates the tables as the tests do, builds a handle,   *)
(* loads buffers and calls process on them.                                *)

FixedEngines == {"fixed_cplx", "fixed_real"}

\* the zero and the sample values of the buffers: from_int(1) and
\* from_f64(-0.7071) as in the tests, as a real and as an imaginary part
Zero(e) == IF e = "fixed_real" THEN from_bits(0) ELSE ComplexFixed_new(from_bits(0), from_bits(0))

SampleValues(e) ==
    IF e = "fixed_real" THEN {from_int(1, FRAC), from_bits(-23170)}
    ELSE {ComplexFixed_new(from_int(1, FRAC), from_bits(0)),
          ComplexFixed_new(from_bits(0), from_bits(-23170))}

\* buffers of len elements of which at most k are not zero
RECURSIVE Sparse(_, _, _)
Sparse(e, len, k) ==
    IF k = 0 THEN {[i \in 1..len |-> Zero(e)]}
    ELSE LET S == Sparse(e, len, k - 1)
         IN  S \cup {[b EXCEPT ![p] = v] : b \in S, p \in 1..len, v \in SampleValues(e)}

\* the buffers a caller passes to a handle of the given size: of the right
\* length, one element short, one element long, and the flat buffer
\* vec![C::new(F::from_int(1), F::from_int(0)); n]: the flat buffer
Flat(e, size) ==
    [i \in 1..size |-> IF e = "fixed_real" THEN from_int(1, FRAC)
                       ELSE ComplexFixed_new(from_int(1, FRAC), from_int(0, FRAC))]

Buffers(e, size) ==
    Sparse(e, size, MaxNonZero) \cup Sparse(e, size - 1, 1) \cup Sparse(e, size + 1, 1)
        \cup {Flat(e, size)}

\* new of the engine e
new(e, tw, br, size) ==
    IF e = "fixed_real" THEN fixed_RealFft_new(tw, br, size)
    ELSE fixed_CplxFft_new(tw, br, size)

\* the handle the program holds
TheHandle == Handle(engine, n, twiddles, bitrev, overflow_checks)

\* a handle of the same size built anew on tables of the same capacities
FreshHandle ==
    LET r == new(engine, ZeroTwiddles(engine, Len(twiddles)), ZeroBitrev(Len(bitrev)), n)
    IN  Handle(engine, n, r.twiddles, r.bitrev, overflow_checks)

Init ==
    /\ overflow_checks \in BOOLEAN
    /\ engine \in FixedEngines
    /\ \E k \in 0..MaxLog2N :
          /\ twiddles = ZeroTwiddles(engine, Pow2(k) \div 2)
          /\ bitrev = ZeroBitrev(Pow2(k))
    /\ n = 0
    /\ new_result = "none"
    /\ NoBuffer

\* let mut buffer = vec![...]: the caller takes a new buffer for the handle
LoadBuffer ==
    /\ new_result = "Ok" /\ proc_result # "panic"
    /\ buffer = <<>> \/ Len(hist) = MaxCalls
    /\ \E b \in Buffers(engine, n) :
          /\ buffer' = b
          /\ orig' = b
    /\ hist' = <<>>
    /\ proc_result' = "none"
    /\ prev' = <<>>
    /\ UNCHANGED <<overflow_checks, engine, twiddles, bitrev, n, new_result, thread, calc>>

\* process with the conjugated twiddles of an inverse call kept in the table
Process_caching(inverse) ==
    /\ new_result = "Ok" /\ proc_result # "panic" /\ Len(hist) < MaxCalls
    /\ LET r == process(TheHandle, buffer, inverse)
       IN  buffer' = r.buffer /\ proc_result' = r.result
    /\ prev' = buffer
    /\ hist' = Append(hist, inverse)
    /\ twiddles' = [k \in 1..Len(twiddles) |-> IF inverse THEN conj(twiddles[k]) ELSE twiddles[k]]
    /\ UNCHANGED <<overflow_checks, engine, bitrev, n, new_result, orig, thread, calc>>

\* fft.process(&mut buffer, inverse)
Process(inverse) ==
    /\ new_result = "Ok" /\ proc_result # "panic" /\ Len(hist) < MaxCalls
    /\ LET r == process(TheHandle, buffer, inverse)
       IN  buffer' = r.buffer /\ proc_result' = r.result
    /\ prev' = buffer
    /\ hist' = Append(hist, inverse)
    /\ UNCHANGED <<overflow_checks, engine, twiddles, bitrev, n, new_result, orig, thread, calc>>

Next ==
    \/ \E size \in 0..MaxN : NewFixedCplx(size)
    \/ \E size \in 0..MaxN : NewFixedReal(size)
    \/ LoadBuffer
    \/ \E inverse \in BOOLEAN : Process(inverse)

Spec == Init /\ [][Next]_vars

---------------------------------------------------------------------------
(* Two threads share one handle: each passes its own buffer to process,    *)
(* and the steps of the two calls interleave.                              *)

\* a thread that has not called process
Idle == [input |-> <<>>, call |-> [Entered(<<>>, FALSE) EXCEPT !.pc = "idle"]]

\* the buffers of the threads: an empty one, and one sample of value 1 at
\* the first or the second place among size zeros
SharedBuffers(e, size) ==
    {<<>>} \cup {[[i \in 1..size |-> Zero(e)] EXCEPT ![p] = v] :
                    p \in {q \in 1..2 : q <= size},
                    v \in {IF e = "fixed_real" THEN from_int(1, FRAC)
                           ELSE ComplexFixed_new(from_int(1, FRAC), from_bits(0))}}

InitShared ==
    /\ overflow_checks \in BOOLEAN
    /\ engine \in FixedEngines
    /\ \E k \in 0..MaxSharedLog2N :
          LET r == new(engine, ZeroTwiddles(engine, Pow2(k) \div 2), ZeroBitrev(Pow2(k)), Pow2(k))
          IN  /\ n = Pow2(k)
              /\ new_result = r.result
              /\ twiddles = r.twiddles
              /\ bitrev = r.bitrev
    /\ buffer = <<>> /\ orig = <<>> /\ hist = <<>> /\ proc_result = "none" /\ prev = <<>>
    /\ thread = [t \in 1..2 |-> Idle]
    /\ calc = NoCalc

\* thread t calls fft.process(&mut b, inverse)
Call(t, b, inverse) ==
    /\ new_result = "Ok"
    /\ thread[t].call.pc = "idle"
    /\ thread' = [thread EXCEPT ![t] = [input |-> b, call |-> Entered(b, inverse)]]
    /\ UNCHANGED <<overflow_checks, engine, twiddles, bitrev, n, new_result,
                   buffer, orig, hist, proc_result, prev, calc>>

\* a step of thread t that keeps the conjugated twiddles of an inverse call
\* in the shared table
Step_caching(t) ==
    /\ thread[t].call.pc \notin {"idle", "done"}
    /\ thread' = [thread EXCEPT ![t].call = step(TheHandle, @)]
    /\ twiddles' = IF thread[t].call.inverse /\ thread[t].call.pc = "butterfly"
                   THEN [k \in 1..Len(twiddles) |-> conj(twiddles[k])]
                   ELSE twiddles
    /\ UNCHANGED <<overflow_checks, engine, bitrev, n, new_result,
                   buffer, orig, hist, proc_result, prev, calc>>

\* thread t takes the next step of its call
Step(t) ==
    /\ thread[t].call.pc \notin {"idle", "done"}
    /\ thread' = [thread EXCEPT ![t].call = step(TheHandle, @)]
    /\ UNCHANGED <<overflow_checks, engine, twiddles, bitrev, n, new_result,
                   buffer, orig, hist, proc_result, prev, calc>>

NextShared ==
    \E t \in 1..2 :
        \/ \E b \in SharedBuffers(engine, n), inverse \in BOOLEAN : Call(t, b, inverse)
        \/ Step(t)

SpecShared == InitShared /\ [][NextShared]_vars

---------------------------------------------------------------------------
(* Claims about process, checked under Spec and SpecShared.                *)

\* the last process call was made on a buffer of the handle's size
RightLength == proc_result # "none" /\ Len(prev) = n

\* |a - b| <= tol
Close(a, b, tol) == a - b <= tol /\ b - a <= tol

\* 0.01 and 0.1 in Q15 stores: the tolerances of the tests
ForwardTolerance == 327
RoundTripTolerance == 3276
\* 0.1 * 0.1 in squared Q15 stores
RoundTripDistance2 == 10737418

\* C3: process returns SizeMismatch if and only if buffer.len() != n, in
\* both directions, and then leaves every element of the buffer as it was;
\* when buffer.len() = n it returns Ok.
C3_SizeMismatchIff ==
    proc_result # "none" =>
        /\ (proc_result = "SizeMismatch") <=> (Len(prev) # n)
        /\ proc_result = "SizeMismatch" => buffer = prev
        /\ Len(prev) = n => proc_result = "Ok"

\* C4: on every handle new returned Ok for, a process call on a buffer of
\* length n runs the whole transform without a fault (no index outside the
\* buffer or a table, no loop bound below zero), n = 1 and n = 2 included.
C4_ProcessNeverFaults ==
    RightLength => proc_result # "panic"

\* C5: process never writes the twiddle table or the bit-reversal table:
\* after any sequence of process calls the tables are as new left them, and
\* the last call gave what a handle built anew gives on the same buffer.
C5_TablesReadOnly ==
    new_result = "Ok" =>
        /\ twiddles = FreshHandle.twiddles
        /\ bitrev = FreshHandle.bitrev
        /\ proc_result # "none" =>
              process(FreshHandle, prev, hist[Len(hist)])
                  = [result |-> proc_result, buffer |-> buffer]

\* C5 witness: an inverse call after a forward call on a buffer with a sample
C5_Witness ==
    /\ new_result = "Ok" /\ n = 4 /\ hist = <<FALSE, TRUE>> /\ proc_result = "Ok"
    /\ \E i \in 1..Len(orig) : orig[i] # Zero(engine)
    /\ twiddles = FreshHandle.twiddles

\* the N-point complex FFT of the real samples x taken with zero imaginary parts
ComplexOfReal(x) ==
    LET size == Len(x)
        r == fixed_CplxFft_new(ZeroTwiddles("fixed_cplx", size \div 2), ZeroBitrev(size), size)
    IN  process(Handle("fixed_cplx", size, r.twiddles, r.bitrev, overflow_checks),
                [k \in 1..size |-> ComplexFixed_new(x[k], from_bits(0))], FALSE).buffer

\* the packed form of the bins X: offset 0 = Re(X[0]), offset 1 = Re(X[N/2]),
\* offsets 2k, 2k+1 = Re(X[k]), Im(X[k])
Packed(X) ==
    [q \in 1..Len(X) |->
        IF q = 1 THEN X[1].re
        ELSE IF q = 2 THEN X[Len(X) \div 2 + 1].re
        ELSE IF q % 2 = 1 THEN X[(q - 1) \div 2 + 1].re
        ELSE X[(q - 2) \div 2 + 1].im]

\* C8: for N >= 4 the forward real FFT leaves the buffer equal, within the
\* tolerance at every offset, to the packed form of the N-point complex FFT
\* of the same samples with zero imaginary parts.
C8_RealForwardPacked ==
    (engine = "fixed_real" /\ new_result = "Ok" /\ n >= 4
        /\ hist = <<FALSE>> /\ Len(orig) = n) =>
        /\ proc_result = "Ok"
        /\ LET P == Packed(ComplexOfReal(orig))
           IN  \A q \in 1..n : Close(buffer[q], P[q], ForwardTolerance)

\* C8 witness: the forward real FFT of 8 samples, bins with imaginary parts
C8_Witness ==
    /\ engine = "fixed_real" /\ new_result = "Ok" /\ n = 8
    /\ hist = <<FALSE>> /\ Len(orig) = n /\ proc_result = "Ok"
    /\ orig[2] # 0 /\ buffer[4] # 0 /\ buffer[6] # 0

\* C9: for every real FFT size new accepts, process(buffer, false) followed
\* by process(buffer, true) restores every sample within 0.1.
C9_RealRoundTrip ==
    (engine = "fixed_real" /\ new_result = "Ok"
        /\ hist = <<FALSE, TRUE>> /\ Len(orig) = n) =>
        /\ proc_result = "Ok"
        /\ \A q \in 1..n : Close(buffer[q], orig[q], RoundTripTolerance)

\* the buffer holds one sample, at element 0, with no imaginary part
ImpulseAtZero(b) ==
    /\ Len(b) >= 1 /\ b[1].re # 0 /\ b[1].im = 0
    /\ \A k \in 2..Len(b) : b[k] = Zero("fixed_cplx")

\* C10: the forward complex FFT followed by the inverse reconstructs every
\* element within a distance of 0.1, and the inverse carries a scale of
\* exactly 1/N: the inverse of one sample v at element 0 is v/N everywhere.
C10_ComplexRoundTrip ==
    (engine = "fixed_cplx" /\ new_result = "Ok" /\ Len(orig) = n) =>
        /\ hist = <<FALSE, TRUE>> =>
              /\ proc_result = "Ok"
              /\ \A k \in 1..n :
                    /\ Close(buffer[k].re, orig[k].re, RoundTripTolerance)
                    /\ Close(buffer[k].im, orig[k].im, RoundTripTolerance)
                    /\ (buffer[k].re - orig[k].re) * (buffer[k].re - orig[k].re)
                         + (buffer[k].im - orig[k].im) * (buffer[k].im - orig[k].im)
                         <= RoundTripDistance2
        /\ (hist = <<TRUE>> /\ ImpulseAtZero(orig)) =>
              /\ proc_result = "Ok"
              /\ \A k \in 1..n : buffer[k] = ComplexFixed_new(orig[1].re \div n, from_bits(0))

\* C10 witness: 8 elements, two of them samples, have made the round trip
C10_Witness ==
    /\ engine = "fixed_cplx" /\ new_result = "Ok" /\ n = 8 /\ Len(orig) = n
    /\ hist = <<FALSE, TRUE>> /\ proc_result = "Ok"
    /\ orig[2].re # 0 /\ orig[4].im # 0
    /\ Close(buffer[2].re, orig[2].re, RoundTripTolerance)

\* C6: two process calls that share one handle and work on their own
\* buffers, their steps interleaved in any order, each leave their buffer
\* and their result as the call made alone leaves them.
C6_InterleavedAsSequential ==
    \A t \in 1..2 :
        thread[t].call.pc = "done" =>
            process(FreshHandle, thread[t].input, thread[t].call.inverse)
                = [result |-> thread[t].call.ret, buffer |-> thread[t].call.buf]

\* C6 witness: a forward and an inverse call have both returned Ok
C6_Witness ==
    /\ n = 4
    /\ thread[1].call.pc = "done" /\ thread[1].call.ret = "Ok" /\ ~thread[1].call.inverse
    /\ thread[2].call.pc = "done" /\ thread[2].call.ret = "Ok" /\ thread[2].call.inverse
    /\ thread[1].call.buf # thread[1].input

---------------------------------------------------------------------------
(* Claims about the impulse response, checked under Spec.                  *)

\* the buffer [1, 0, ..., 0]
Impulse(size) ==
    [i \in 1..size |-> IF i = 1 THEN ComplexFixed_new(from_int(1, FRAC), from_int(0, FRAC))
                       ELSE Zero("fixed_cplx")]

\* C11: at any power-of-two N the forward complex FFT of [1, 0, ..., 0]
\* leaves the store of 1 in every real part and 0 in every imaginary part,
\* and the inverse complex FFT of the all-ones buffer leaves 1 at index 0
\* and 0 everywhere else, every store exact.
C11_ImpulseResponse ==
    (engine = "fixed_cplx" /\ new_result = "Ok" /\ Len(hist) = 1) =>
        /\ (hist = <<FALSE>> /\ orig = Impulse(n)) =>
              proc_result = "Ok" /\ buffer = Flat("fixed_cplx", n)
        /\ (hist = <<TRUE>> /\ orig = Flat("fixed_cplx", n)) =>
              proc_result = "Ok" /\ buffer = Impulse(n)

\* C11 witness: the inverse FFT of the flat buffer of 8 elements
C11_Witness ==
    /\ engine = "fixed_cplx" /\ new_result = "Ok" /\ n = 8
    /\ hist = <<TRUE>> /\ orig = Flat("fixed_cplx", 8) /\ buffer = Impulse(8)

---------------------------------------------------------------------------
(* The packed real spectrum: src/common.rs.  An f32 is the integer whose   *)
(* value it holds; negation of an f32 is exact.                            *)

\* FftNum for f32: zero, val_to_complex, complex_re, complex_im, negate
zero == 0

val_to_complex(re, im) == Complex32_new(re, im)

\* complex_re reading the imaginary part
complex_re_as_im(c) == c.im

complex_re(c) == c.re

complex_im(c) == c.im

\* negate leaving the sign as it is
negate_identity(x) == x

negate(x) == -x

\* the loop of unpack_rfft_spectrum: for k in 1..n / 2
RECURSIVE unpack_from(_, _, _)
unpack_from(t, packed, k) ==
    LET size == Len(packed)
    IN  IF k >= size \div 2 \/ t.st # "ok" THEN t
        ELSE LET re == packed[2 * k + 1]
                 im == packed[2 * k + 2]
             IN  unpack_from(Store(Store(t, k, val_to_complex(re, im)),
                                   size - k, val_to_complex(re, negate(im))),
                             packed, k + 1)

\* unpack_rfft_spectrum(packed, output): the two assertions, DC, Nyquist, the loop
unpack_rfft_spectrum(packed, output) ==
    LET size == Len(packed)
    IN  IF Len(output) # size \/ size % 2 # 0 \/ size = 0
        THEN [st |-> "panic", tab |-> output]
        ELSE unpack_from(
                Store(Store([st |-> "ok", tab |-> output], 0, val_to_complex(packed[1], zero)),
                      size \div 2, val_to_complex(packed[2], zero)),
                packed, 1)

\* the loop of pack_rfft_spectrum: for k in 1..n / 2
RECURSIVE pack_from(_, _, _)
pack_from(t, full, k) ==
    IF k >= Len(full) \div 2 \/ t.st # "ok" THEN t
    ELSE pack_from(Store(Store(t, 2 * k, complex_re(full[k + 1])),
                         2 * k + 1, complex_im(full[k + 1])),
                   full, k + 1)

\* pack_rfft_spectrum(full, output): the assertion, DC, Nyquist, the loop
pack_rfft_spectrum(full, output) ==
    LET size == Len(full)
    IN  IF Len(output) # size \/ size = 0 THEN [st |-> "panic", tab |-> output]
        ELSE pack_from(
                Store(Store([st |-> "ok", tab |-> output], 0, complex_re(full[1])),
                      1, complex_re(full[size \div 2 + 1])),
                full, 1)

---------------------------------------------------------------------------
(* Scalar and layout functions called on their own.                        *)

\* packed spectra of size stores: the store at offset i is i + 1 or -(i + 1)
PackedSpectra(size) ==
    {[i \in 1..size |-> s[i] * i] : s \in [1..size -> {-1, 1}]}

\* what the caller's output array holds before unpack: any value the caller
\* left there (the tests pass zeros); a value no packed spectrum produces
Stale == Complex32_new(99, 99)

StaleOutput(len) == [i \in 1..len |-> Stale]

InitCalc ==
    /\ overflow_checks \in BOOLEAN
    /\ engine = "fixed_cplx"
    /\ twiddles = <<>>
    /\ bitrev = <<>>
    /\ n = 0
    /\ new_result = "none"
    /\ NoBuffer

Called(op, in, out) ==
    /\ calc' = [op |-> op, in |-> in, out |-> out]
    /\ UNCHANGED <<overflow_checks, engine, twiddles, bitrev, n, new_result,
                   buffer, orig, hist, proc_result, prev, thread>>

\* unpack_rfft_spectrum(&packed, &mut spectrum)
Unpack(packed, len) ==
    Called("unpack", <<packed, StaleOutput(len)>>,
           unpack_rfft_spectrum(packed, StaleOutput(len)))

\* pack_rfft_spectrum(&spectrum, &mut packed_back) on the spectrum just unpacked
Pack ==
    /\ calc.op = "unpack" /\ calc.out.st = "ok"
    /\ Called("pack", <<calc.in[1], calc.out.tab>>,
              pack_rfft_spectrum(calc.out.tab, [i \in 1..Len(calc.out.tab) |-> zero]))

\* stores the scalar operations are called with: the extremes, the values
\* around zero, and the stores of 1.0 and 2.0 at the scales in Fracs
Stores ==
    {I32Min, I32Min + 1, -65536, -3, -2, -1, 0, 1, 2, 3, 512, 65536, 3 * 65536, 1073741824, I32Max}

\* the const parameters FRAC, F1, F2, TO_FRAC the operations are instantiated at
Fracs == {0, 8, 16, 31}

\* the outcome of a call that returns a value, and of one that panics
Returned(val) == [st |-> "ok", val |-> val]

Panicked == [st |-> "panic"]

\* a + b: `self.0 + rhs_converted.0` panics on overflow when the build checks it
Add(a, b, F1, F2) ==
    Called("add", <<a, b, F1, F2>>,
           IF overflow_checks /\ fixed_add_overflows(a, b, F1, F2) THEN Panicked
           ELSE Returned(fixed_add(a, b, F1, F2)))

\* a - b
Sub(a, b, F1, F2) ==
    Called("sub", <<a, b, F1, F2>>,
           IF overflow_checks /\ fixed_sub_overflows(a, b, F1, F2) THEN Panicked
           ELSE Returned(fixed_sub(a, b, F1, F2)))

\* a * b
Mul(a, b, F1, F2) == Called("mul", <<a, b, F1, F2>>, Returned(fixed_mul(a, b, F2)))

\* b * twiddles[0] for a data store b and the twiddle of angle 0 that
\* precompute_twiddles generates (the table of a transform of 2 elements)
MulTwiddleZero(b) ==
    LET w == precompute_twiddles(ZeroTwiddles("fixed_cplx", 1), 2).tab[1]
    IN  Called("mul_twiddle0", <<b>>,
               [twiddle |-> w,
                re |-> fixed_mul(b, to_bits(w.re), TWIDDLE_FRAC),
                im |-> fixed_mul(b, to_bits(w.im), TWIDDLE_FRAC)])

\* x.convert::<TO_FRAC>()
Convert(x, F, TO_FRAC) == Called("convert", <<x, F, TO_FRAC>>, Returned(convert(x, F, TO_FRAC)))

\* x.scale_half()
ScaleHalf(x) == Called("scale_half", <<x>>, Returned(scale_half(x)))

\* z.scale_half() on a ComplexFixed
ComplexScaleHalf(z) == Called("complex_scale_half", <<z>>, Returned(complex_scale_half(z)))

\* z.conj()
Conj(z) == Called("conj", <<z>>, Returned(conj(z)))

\* the rotation of unweave and reweave applied to a product tmp1
Rotate(z) == Called("rotate", <<z>>, Returned(rotate(z)))

\* .conj() on the result of z.conj()
ConjAgain ==
    /\ calc.op = "conj"
    /\ Called("conj_conj", calc.in, Returned(conj(calc.out.val)))

\* real values on a grid where every f64 operation involved is exact:
\* a * 2^16 in quarters, and b * 2^31 in quarters next to 0, 1/4, 1/2 and 1
\* unit of Q16 (a unit of Q16 is 32768 units of Q31)
QuartersQ16 == (-4 * MaxUlps)..(4 * MaxUlps)

QuartersQ31 ==
    {4 * (32768 * j + r) + f : j \in {-1, 0, 1}, r \in {0, 1, 8192, 16384, 32767}, f \in 0..3}

\* Fixed::<16>::from_f64(a) + Fixed::<31>::from_f64(b), next to
\* Fixed::<16>::from_f64(a + b), for a = pa / 2^18 and b = qb / 2^33
MixedAdd(pa, qb) ==
    LET a == from_f64_dyadic(pa, 2)
        b == from_f64_dyadic(qb, 2)
    IN  Called("mixed_add", <<pa, qb>>,
               IF overflow_checks /\ fixed_add_overflows(a, b, 16, 31) THEN Panicked
               ELSE Returned(<<fixed_add(a, b, 16, 31),
                               from_f64_dyadic(32768 * pa + qb, 17)>>))

\* one call on fresh arguments, or a second call on the result of the first
NextCalc ==
    \/ /\ calc = NoCalc
       /\ \/ \E size \in 0..(2 * MaxSpectrumHalf), d \in {0, 1} :
                \E packed \in PackedSpectra(size) : Unpack(packed, size + d)
          \/ \E a \in Stores, b \in Stores, F1 \in Fracs, F2 \in Fracs : Add(a, b, F1, F2)
          \/ \E a \in Stores, b \in Stores, F1 \in Fracs, F2 \in Fracs : Sub(a, b, F1, F2)
          \/ \E a \in Stores, b \in Stores, F1 \in Fracs, F2 \in Fracs : Mul(a, b, F1, F2)
          \/ \E b \in Stores \cup {-1073741825, -1073741824, -1073741823, 1073741823, 1073741825} :
                MulTwiddleZero(b)
          \/ \E x \in Stores, F \in Fracs, TO_FRAC \in Fracs : Convert(x, F, TO_FRAC)
          \/ \E x \in Stores : ScaleHalf(x)
          \/ \E re \in Stores, im \in Stores : ComplexScaleHalf(ComplexFixed_new(re, im))
          \/ \E re \in Stores, im \in Stores : Conj(ComplexFixed_new(re, im))
          \/ \E re \in Stores, im \in Stores : Rotate(ComplexFixed_new(re, im))
          \/ \E pa \in QuartersQ16, qb \in QuartersQ31 : MixedAdd(pa, qb)
    \/ Pack
    \/ ConjAgain

SpecCalc == InitCalc /\ [][NextCalc]_vars

---------------------------------------------------------------------------
(* Claims about the packed spectrum, checked under SpecCalc.               *)

\* C12: for every even N >= 2 and every packed spectrum P of N scalars,
\* pack_rfft_spectrum(unpack_rfft_spectrum(P)) is P, element for element.
C12_PackUnpackRoundTrip ==
    (calc.op = "pack" /\ Len(calc.in[1]) >= 2 /\ Len(calc.in[1]) % 2 = 0) =>
        calc.out = [st |-> "ok", tab |-> calc.in[1]]

\* C12 witness: a spectrum of 6 scalars has been unpacked and packed again
C12_Witness ==
    /\ calc.op = "pack" /\ Len(calc.in[1]) = 6 /\ calc.out.st = "ok"
    /\ calc.out.tab = <<1, -2, 3, 4, -5, 6>>

\* C13: unpack_rfft_spectrum writes every one of the N bins, and the result
\* is Hermitian: bin[0] = (P[0], 0), bin[N/2] = (P[1], 0), bin[k] =
\* (P[2k], P[2k+1]) and bin[N-k] = (P[2k], -P[2k+1]) for k in 1..N/2-1;
\* nothing of what the output held before is left.
C13_UnpackHermitian ==
    (calc.op = "unpack" /\ Len(calc.in[1]) >= 2 /\ Len(calc.in[1]) % 2 = 0
        /\ Len(calc.in[2]) = Len(calc.in[1])) =>
        LET P == calc.in[1]
            size == Len(P)
            bin == calc.out.tab
        IN  /\ calc.out.st = "ok"
            /\ Len(bin) = size
            /\ bin[1] = [re |-> P[1], im |-> 0]
            /\ bin[size \div 2 + 1] = [re |-> P[2], im |-> 0]
            /\ \A k \in 1..(size \div 2 - 1) :
                  /\ bin[k + 1] = [re |-> P[2 * k + 1], im |-> P[2 * k + 2]]
                  /\ bin[size - k + 1] = [re |-> P[2 * k + 1], im |-> 0 - P[2 * k + 2]]
            /\ \A i \in 1..size : bin[i] # Stale

\* C13 witness: 6 scalars have been unpacked, bin 5 the conjugate of bin 1
C13_Witness ==
    /\ calc.op = "unpack" /\ calc.out.st = "ok" /\ Len(calc.out.tab) = 6
    /\ calc.out.tab[2] = [re |-> 3, im |-> -4]
    /\ calc.out.tab[6] = [re |-> 3, im |-> 4]

---------------------------------------------------------------------------
(* Claims about the scalar operations, checked under SpecCalc.             *)

\* b * 2^k is a signed 32-bit value
FitsShifted(b, k) == k = 0 \/ (b >= -Pow2(31 - k) /\ b < Pow2(31 - k))

\* floor(b / 2^d) for 0 <= d <= 31
FloorShifted(b, d) == IF d = 31 THEN (IF b < 0 THEN -1 ELSE 0) ELSE b \div Pow2(d)

\* the store of b, given at scale F2, at scale F1 (where the up-scale fits)
Rescaled(b, F2, F1) ==
    IF F1 - F2 = 31 THEN (IF b = 0 THEN 0 ELSE I32Min)
    ELSE IF F1 > F2 THEN b * Pow2(F1 - F2)
    ELSE FloorShifted(b, F2 - F1)

\* a + c, respectively a - c, is a signed 32-bit value
SumFits(a, c) == IF c >= 0 THEN a <= I32Max - c ELSE a >= I32Min - c

DifferenceFits(a, c) == IF c >= 0 THEN a >= I32Min + c ELSE a <= I32Max + c

\* C14: for Fixed<F1> a and Fixed<F2> b, wherever the rescaled right store
\* and the result fit in 32 bits, a + b and a - b return the store
\* a.store +/- (b.store rescaled from F2 to F1): it is the right operand
\* that is rescaled, to the scale of the left.  1.0 in Q16 plus 2.0 in Q8
\* has store 3 << 16.
C14_AddSubRescaleRight ==
    (calc.op \in {"add", "sub"}) =>
        LET a == calc.in[1]
            b == calc.in[2]
            F1 == calc.in[3]
            F2 == calc.in[4]
        IN  /\ (F1 <= F2 \/ FitsShifted(b, F1 - F2)) =>
                  /\ (calc.op = "add" /\ SumFits(a, Rescaled(b, F2, F1))) =>
                        calc.out = Returned(a + Rescaled(b, F2, F1))
                  /\ (calc.op = "sub" /\ DifferenceFits(a, Rescaled(b, F2, F1))) =>
                        calc.out = Returned(a - Rescaled(b, F2, F1))
            /\ (calc.op = "add" /\ calc.in = <<65536, 512, 16, 8>>) =>
                  calc.out = Returned(3 * 65536)

\* C14 witness: 3.0 in Q16 minus 2.0 in Q8 has been computed and is 1.0 in Q16
C14_Witness ==
    /\ calc.op = "sub" /\ calc.in = <<3 * 65536, 512, 16, 8>>
    /\ calc.out = Returned(65536)

\* |x| < 2^15, so that a product of two such values stays below 2^30
IsSmall(x) == x > -32768 /\ x < 32768

\* C15: for Fixed<F1> a times Fixed<F2> b the store returned is the low 32
\* bits of floor((a.store * b.store + 2^(F2-1)) / 2^F2) when F2 > 0 and of
\* a.store * b.store when F2 = 0; offset and shift use F2, whatever F1 is.
\* Stated where the 64-bit value can be written down without the model's
\* multiplication: small operands, a right operand 2^k, and products that
\* leave 32 bits.
C15_MulRounded ==
    (calc.op = "mul") =>
        LET a == calc.in[1]
            b == calc.in[2]
            F2 == calc.in[4]
        IN  /\ calc.out.st = "ok"
            /\ (IsSmall(a) /\ IsSmall(b)) =>
                  calc.out.val =
                      IF F2 = 0 THEN a * b ELSE FloorShifted(a * b + Pow2(F2 - 1), F2)
            /\ \A k \in 0..30 :
                  (b = Pow2(k)) =>
                      /\ (k >= F2 /\ FitsShifted(a, k - F2)) =>
                            calc.out.val = a * Pow2(k - F2)
                      /\ (k < F2) =>
                            calc.out.val = FloorShifted(a, F2 - k)
                                           + (FloorShifted(a, F2 - k - 1) % 2)
            /\ (a = 65536 /\ b = 65536 /\ F2 = 0) => calc.out.val = 0
            /\ (a = I32Min /\ b = I32Min /\ F2 = 16) => calc.out.val = 0
            /\ (a = I32Min /\ b = I32Min /\ F2 = 31) => calc.out.val = I32Min
            /\ (a = I32Max /\ b = I32Max /\ F2 = 31) => calc.out.val = I32Max - 1
            /\ (a = I32Max /\ b = -3 /\ F2 = 0) => calc.out.val = I32Min + 3

\* C15 witness: the store -1 times the Q8 store 1 is -1/256, rounded to 0
\* (a truncating shift would give -1)
C15_Witness ==
    /\ calc.op = "mul"
    /\ calc.in = <<-1, 1, 16, 8>>
    /\ calc.out = Returned(0)

\* C16 (as stated): convert::<ToF>() with ToF > F returns, for every store,
\* a store that represents the same value: store' = store * 2^(ToF-F).
C16_ConvertUpExactForEveryStore ==
    (calc.op = "convert" /\ calc.in[3] > calc.in[2]) =>
        LET k == calc.in[3] - calc.in[2]
        IN  /\ calc.out.st = "ok"
            /\ FloorShifted(calc.out.val, k) = calc.in[1]
            /\ \A j \in 0..(k - 1) : FloorShifted(calc.out.val, j) % 2 = 0

\* C16 (amended): convert::<ToF>() never fails; with ToF > F the store is the
\* low 32 bits of store * 2^(ToF-F), which is store * 2^(ToF-F) itself (the
\* same value, no loss) exactly when that product is a signed 32-bit value;
\* with ToF < F it is floor(store / 2^(F-ToF)), never rounded to nearest;
\* with ToF = F the store is unchanged.
C16_Convert ==
    (calc.op = "convert") =>
        LET x == calc.in[1]
            F == calc.in[2]
            ToF == calc.in[3]
            k == ToF - F
            r == calc.out.val
        IN  /\ calc.out.st = "ok"
            /\ (ToF > F) =>
                  /\ \A j \in 0..31 :
                        FloorShifted(r, j) % 2 = (IF j < k THEN 0 ELSE FloorShifted(x, j - k) % 2)
                  /\ FitsShifted(x, k) <=> (FloorShifted(r, k) = x)
                  /\ (FitsShifted(x, k) /\ k < 31) => r = x * Pow2(k)
            /\ (ToF < F) => r = FloorShifted(x, F - ToF)
            /\ (ToF = F) => r = x

\* C16 witness: an up-scale has lost the top bits of 2^30 (Q8 to Q16 gives 0)
C16_Witness ==
    /\ calc.op = "convert"
    /\ calc.in = <<1073741824, 8, 16>>
    /\ calc.out = Returned(0)

\* a + c and a - c reduced modulo 2^32 into the signed 32-bit range
WrappedSum(a, c) ==
    IF SumFits(a, c) THEN a + c
    ELSE IF c >= 0 THEN ((a - I32Max) + (c - I32Max)) - 2
    ELSE (a - I32Min) + (c - I32Min)

WrappedDifference(a, c) ==
    IF DifferenceFits(a, c) THEN a - c
    ELSE IF c >= 0 THEN ((a - I32Min) + (I32Max - c)) + 1
    ELSE ((a - I32Max) + (I32Min - c)) - 1

\* C17: fixed-point add and sub never abort: when the exact sum or
\* difference of the (rescaled) stores is outside the signed 32-bit range
\* the operation returns it wrapped modulo 2^32.
C17_AddSubNeverAbort ==
    (calc.op \in {"add", "sub"}) =>
        LET a == calc.in[1]
            b == calc.in[2]
            F1 == calc.in[3]
            F2 == calc.in[4]
        IN  /\ calc.out.st = "ok"
            /\ (F1 <= F2 \/ FitsShifted(b, F1 - F2)) =>
                  calc.out.val = IF calc.op = "add" THEN WrappedSum(a, Rescaled(b, F2, F1))
                                 ELSE WrappedDifference(a, Rescaled(b, F2, F1))

\* C18: ComplexFixed::conj leaves the real store as it is and replaces the
\* imaginary store by its saturating negation: -im for every im other than
\* -2^31, and 2^31 - 1 (never -2^31) for im = -2^31; so conj(conj(z)) = z
\* exactly when z.im is not -2^31.
C18_ConjSaturates ==
    /\ (calc.op = "conj") =>
          LET z == calc.in[1]
              w == calc.out.val
          IN  /\ calc.out.st = "ok"
              /\ w.re = z.re
              /\ (z.im # I32Min) => (w.im = 0 - z.im)
              /\ (z.im = I32Min) => (w.im = I32Max)
              /\ w.im # I32Min
    /\ (calc.op = "conj_conj") =>
          /\ calc.out.st = "ok"
          /\ (calc.out.val = calc.in[1]) <=> (calc.in[1].im # I32Min)

\* C18 witness: the conjugate of the conjugate of (1, -2^31) is (1, -(2^31 - 1))
C18_Witness ==
    /\ calc.op = "conj_conj"
    /\ calc.in = <<ComplexFixed_new(1, I32Min)>>
    /\ calc.out = Returned(ComplexFixed_new(1, I32Min + 1))

\* r = floor(x / 2), stated without a division: x - 2r is 0 or 1
IsFloorHalf(x, r) == (x - r) - r \in {0, 1}

\* C20: scale_half on a fixed scalar returns floor(store / 2) for every
\* store (arithmetic shift right by 1: -1 stays -1, odd negative stores go
\* toward minus infinity), and ComplexFixed::scale_half does exactly this
\* to the real and to the imaginary store, each on its own.
C20_ScaleHalfFloors ==
    /\ (calc.op = "scale_half") =>
          /\ calc.out.st = "ok"
          /\ IsFloorHalf(calc.in[1], calc.out.val)
          /\ (calc.in[1] = -1) => (calc.out.val = -1)
          /\ (calc.in[1] = -3) => (calc.out.val = -2)
    /\ (calc.op = "complex_scale_half") =>
          /\ calc.out.st = "ok"
          /\ IsFloorHalf(calc.in[1].re, calc.out.val.re)
          /\ IsFloorHalf(calc.in[1].im, calc.out.val.im)

\* C20 witness: the half of (-1, 3) has been taken and is (-1, 1)
C20_Witness ==
    /\ calc.op = "complex_scale_half"
    /\ calc.in = <<ComplexFixed_new(-1, 3)>>
    /\ calc.out = Returned(ComplexFixed_new(-1, 1))

\* C19: for real values a and b with headroom, the store of
\* from_f64::<16>(a) + from_f64::<31>(b) (Q16 on the left, Q31 on the right,
\* from_f64 rounding to nearest and the rescale from Q31 to Q16 truncating)
\* differs from the store of from_f64::<16>(a + b) by at most 1.
C19_MixedAddWithinOneUlp ==
    (calc.op = "mixed_add") =>
        /\ calc.out.st = "ok"
        /\ calc.out.val[1] - calc.out.val[2] \in {-1, 0, 1}

\* C19 witness: a = 2^-17 and b = -2^-33 give the stores 1 + 0 and 0, one apart
C19_Witness ==
    /\ calc.op = "mixed_add"
    /\ calc.in = <<2, -1>>
    /\ calc.out = Returned(<<1, 0>>)

---------------------------------------------------------------------------
(* One caller, one call, step by step: a handle of the fixed-point engine  *)
(* on tables of exactly the capacity new asks for, and one call of process *)
(* followed from its entry to its return.                                  *)

\* a buffer whose elements all differ: the stores 1024, 2048, ... for a real
\* buffer, (1024 k, -512 k) for a complex one
Ramp(e, size) ==
    [k \in 1..size |-> IF e = "fixed_real" THEN from_bits(1024 * k)
                       ELSE ComplexFixed_new(from_bits(1024 * k), from_bits(-512 * k))]

StepBuffers(e, size) == SharedBuffers(e, size) \cup {Ramp(e, size)}

InitSteps ==
    /\ overflow_checks \in BOOLEAN
    /\ engine \in FixedEngines \cup {"float_cplx", "float_real"}
    /\ \E k \in 0..MaxStepLog2N :
          LET size == Pow2(k)
              bcap == IF engine \in {"fixed_real", "float_real"} THEN size \div 2 ELSE size
              tw == ZeroTwiddles(engine, size \div 2)
              r == CASE engine = "float_cplx" -> float_CplxFft_new(tw, ZeroBitrev(bcap), size)
                     [] engine = "float_real" -> float_RealFft_new(tw, ZeroBitrev(bcap), size)
                     [] OTHER -> new(engine, tw, ZeroBitrev(bcap), size)
          IN  /\ n = size
              /\ new_result = r.result
              /\ twiddles = r.twiddles
              /\ bitrev = r.bitrev
    /\ buffer = <<>> /\ orig = <<>> /\ hist = <<>> /\ proc_result = "none" /\ prev = <<>>
    /\ thread = <<Idle>>
    /\ calc = NoCalc

\* fft.process(&mut buffer, inverse) on the floating-point complex handle,
\* with a buffer of len elements
FloatProcess(len, inverse) ==
    /\ engine = "float_cplx" /\ new_result = "Ok" /\ calc = NoCalc
    /\ Called("float_process", <<len, inverse>>, float_CplxFft_process(bitrev, n, len, inverse))

\* even integer-valued f32 samples
FloatSamples == {-4, 0, 2, 6}

\* fft.process_inv(&mut buffer) on the floating-point real handle of 2 or 4
\* samples, up to the call of the inner transform
FloatProcessInv(b) ==
    /\ engine = "float_real" /\ new_result = "Ok" /\ n \in {2, 4} /\ calc = NoCalc
    /\ Called("float_process_inv", b, float_RealFft_weave(b, n))

NextSteps ==
    \/ /\ engine \in FixedEngines
       /\ \E b \in StepBuffers(engine, n), inverse \in BOOLEAN : Call(1, b, inverse)
    \/ Step(1)
    \/ \E d \in {0, 1}, inverse \in BOOLEAN : FloatProcess(n + d, inverse)
    \/ /\ engine = "float_real" /\ n \in {2, 4}
       /\ \E b \in [1..n -> FloatSamples] \cup {<<>>} : FloatProcessInv(b)

SpecSteps == InitSteps /\ [][NextSteps]_vars

---------------------------------------------------------------------------
(* Claims about the steps of process, checked under SpecSteps.             *)

\* the call being followed, and the complex slice the core works on
TheCall == thread[1].call

CoreLen == cbuffer_len(TheHandle, TheCall.buf)

\* the call has finished the permutation: it stands before the first
\* butterfly, or it has returned without one (a core of one element)
AtFirstButterfly ==
    /\ TheCall.pc = "butterfly"
    /\ TheCall.stride = 1 /\ TheCall.j = 0 /\ TheCall.i = 0

\* the core works on the buffer as the caller passed it (the inverse real
\* FFT reweaves it first)
CoreOnInput == engine = "fixed_cplx" \/ ~TheCall.inverse

\* C21 (state part): for every power-of-two N, when the permutation loop
\* has ended buffer'[i] = buffer[bitrev[i]] for every i in 0..N, and the
\* indices 0 and N-1, which the loop skips, are fixed points of the table.
C21_Permuted ==
    (AtFirstButterfly /\ CoreOnInput) =>
        /\ \A i \in 0..(CoreLen - 1) :
              cbuffer_get(TheHandle, TheCall.buf, i)
                  = cbuffer_get(TheHandle, thread[1].input, bitrev[i + 1])
        /\ bitrev[1] = 0
        /\ bitrev[CoreLen] = CoreLen - 1

\* C21 (step part): a turn of the permutation loop at index i swaps the
\* elements i and bitrev[i] when i < bitrev[i] and leaves the buffer as it
\* is otherwise, so each pair is swapped once, at its smaller index.
C21_SwapOnce ==
    (TheCall.pc = "permute" /\ TheCall.i < TheCall.hi /\ thread'[1].call.pc # "done") =>
        LET i == TheCall.i
            j == bitrev[i + 1]
            before == TheCall.buf
            after == thread'[1].call.buf
        IN  IF i < j
            THEN /\ cbuffer_get(TheHandle, after, i) = cbuffer_get(TheHandle, before, j)
                 /\ cbuffer_get(TheHandle, after, j) = cbuffer_get(TheHandle, before, i)
                 /\ \A k \in 0..(CoreLen - 1) :
                       k \notin {i, j} =>
                           cbuffer_get(TheHandle, after, k) = cbuffer_get(TheHandle, before, k)
            ELSE after = before

\* C21: the permutation step of the butterfly core leaves buffer'[i] =
\* buffer[bitrev[i]] for every index i in 0..N, each pair {i, bitrev[i]}
\* with i # bitrev[i] being swapped exactly once, and 0 and N-1 being fixed
\* points of the table.
C21_BitReversePermutation == []C21_Permuted /\ [][C21_SwapOnce]_vars

\* C21 witness: the ramp of 8 complex elements has been permuted
C21_Witness ==
    /\ engine = "fixed_cplx" /\ n = 8 /\ AtFirstButterfly
    /\ thread[1].input = Ramp("fixed_cplx", 8)
    /\ TheCall.buf[2] = Ramp("fixed_cplx", 8)[5]
    /\ TheCall.buf[4] = Ramp("fixed_cplx", 8)[7]

\* C22: with tables of exactly the capacity RealFft::new accepts for N >= 2
\* real samples (N/2 twiddles, N/2 bit-reversal entries, all of them filled
\* by new), every table index the forward and the inverse real FFT read is
\* inside the table: the inner transform reads twiddles[i * tw_index * 2]
\* with i * tw_index * 2 < N/2 at every stage, the unweave / reweave loop
\* reads twiddles[i] only for 1 <= i < N/4, and bitrev is read only below
\* N/2; no call on a buffer of N samples ends in an index panic.
C22_RealTableReadsInRange ==
    (engine = "fixed_real" /\ n >= 2 /\ TheCall.pc # "idle") =>
        /\ new_result = "Ok"
        /\ Len(twiddles) = n \div 2 /\ Len(bitrev) = n \div 2
        /\ \A j \in 1..(n \div 2) : twiddles[j] # ZeroTwiddle(engine)
        /\ {bitrev[i] : i \in 1..(n \div 2)} = 0..(n \div 2 - 1)
        /\ (TheCall.pc = "butterfly") =>
              TheCall.i * TheCall.tw_index * 2 < n \div 2
        /\ (TheCall.pc = "weave" /\ TheCall.i < (n \div 2) \div 2) =>
              (1 <= TheCall.i /\ TheCall.i < n \div 4)
        /\ (TheCall.pc = "permute" /\ TheCall.i < TheCall.hi) =>
              TheCall.i < n \div 2
        /\ (TheCall.pc = "done" /\ Len(thread[1].input) = n) => TheCall.ret = "Ok"

\* C22 witness: the inner transform of N = 16 real samples stands before the
\* butterfly that reads twiddles[6], the last entry it uses
C22_Witness ==
    /\ engine = "fixed_real" /\ n = 16 /\ Len(twiddles) = 8 /\ Len(bitrev) = 8
    /\ TheCall.pc = "butterfly" /\ TheCall.i * TheCall.tw_index * 2 = 6

Butterflies(ops) == SelectSeq(ops, LAMBDA o : o.op = "butterfly")

Indices(ops) == [k \in 1..Len(ops) |-> <<ops[k].a, ops[k].b, ops[k].tw>>]

\* C23 (fixed-point part): a butterfly of the core stores a + t and a - t
\* for t = b * w in forward direction and their floor halves in inverse
\* direction, with w the conjugated twiddle; it writes nothing else, and the
\* loop counters move on the same way in both directions.
C23_FixedButterfly ==
    (TheCall.pc = "butterfly" /\ thread'[1].call.ret # "panic") =>
        LET c == TheCall
            d == thread'[1].call
            index == c.j + c.i
            w0 == twiddles[c.i * c.tw_index * (IF engine = "fixed_real" THEN 2 ELSE 1) + 1]
            w == IF c.inverse THEN conj(w0) ELSE w0
            a == cbuffer_get(TheHandle, c.buf, index)
            b == cbuffer_get(TheHandle, c.buf, index + c.stride)
            t == complex_mul(b, w, FRAC, TWIDDLE_FRAC)
            v1 == cbuffer_get(TheHandle, d.buf, index)
            v2 == cbuffer_get(TheHandle, d.buf, index + c.stride)
        IN  /\ IF c.inverse
               THEN /\ IsFloorHalf(to_bits(a.re) + to_bits(t.re), to_bits(v1.re))
                    /\ IsFloorHalf(to_bits(a.im) + to_bits(t.im), to_bits(v1.im))
                    /\ IsFloorHalf(to_bits(a.re) - to_bits(t.re), to_bits(v2.re))
                    /\ IsFloorHalf(to_bits(a.im) - to_bits(t.im), to_bits(v2.im))
               ELSE /\ to_bits(v1.re) = to_bits(a.re) + to_bits(t.re)
                    /\ to_bits(v1.im) = to_bits(a.im) + to_bits(t.im)
                    /\ to_bits(v2.re) = to_bits(a.re) - to_bits(t.re)
                    /\ to_bits(v2.im) = to_bits(a.im) - to_bits(t.im)
            /\ \A k \in 0..(CoreLen - 1) :
                  k \notin {index, index + c.stride} =>
                      cbuffer_get(TheHandle, d.buf, k) = cbuffer_get(TheHandle, c.buf, k)
            /\ IF c.i + 1 < c.stride
               THEN d.pc = "butterfly" /\ d.i = c.i + 1 /\ d.j = c.j
                    /\ d.stride = c.stride /\ d.tw_index = c.tw_index
               ELSE IF c.j + 2 * c.stride < CoreLen - c.stride
               THEN d.pc = "butterfly" /\ d.i = 0 /\ d.j = c.j + 2 * c.stride
                    /\ d.stride = c.stride /\ d.tw_index = c.tw_index
               ELSE IF 2 * c.stride < CoreLen
               THEN d.pc = "butterfly" /\ d.i = 0 /\ d.j = 0
                    /\ d.stride = 2 * c.stride /\ d.tw_index * 2 = c.tw_index
               ELSE d.pc # "butterfly"

\* C23 (floating-point part): an inverse call of the complex engine halves
\* the outputs of every butterfly, scales nothing afterwards, and runs the
\* butterflies of the forward call on the same indices in the same order.
C23_FloatButterflies ==
    (calc.op = "float_process" /\ calc.in[2] /\ calc.out.result = "Ok") =>
        /\ \A k \in 1..Len(calc.out.ops) :
              /\ calc.out.ops[k].op # "scale"
              /\ calc.out.ops[k].op = "butterfly" =>
                    (calc.out.ops[k].half /\ calc.out.ops[k].conj)
        /\ Indices(Butterflies(calc.out.ops))
              = Indices(Butterflies(float_CplxFft_process(bitrev, n, n, FALSE).ops))

\* C23: in inverse direction the fixed-point and the floating-point complex
\* engines halve the two outputs of every butterfly at each stage and divide
\* by N nowhere else; apart from the halving and the conjugated twiddle the
\* forward and the inverse run execute the same butterflies on the same
\* indices in the same order.
C23_InverseHalvesPerStage == []C23_FloatButterflies /\ [][C23_FixedButterfly]_vars

\* C24 (tables): construction with a power-of-two size does not hang, and
\* the inner loop of precompute_bitrev entered at index i with j = bitrev[i-1]
\* and k = size / 2 ends with k >= 1, leaving j + k as bitrev[i].
C24_BitrevLoopExits ==
    /\ new_result # "hang"
    /\ new_result = "Ok" =>
          \A i \in 1..(BitrevSize - 1) :
              LET w == bitrev_while(bitrev[i], BitrevSize \div 2)
              IN  ~w.hang /\ w.k >= 1 /\ bitrev[i + 1] = w.j + w.k

\* C24 (stages): every turn of the loops of the core moves the loop
\* counters strictly forward inside their bounds.  The permutation loop
\* counts i up to its end; the stage loop starts with stride 1 when the
\* buffer has more than one element, moves (stride, j, i) forward in
\* lexicographic order with j + i + stride < N, doubles the stride from
\* stage to stage, and stops after the stage of stride N/2; a buffer of one
\* element has no stage.  The core is never entered again by the same call.
C24_Stages ==
    LET c == TheCall
        d == thread'[1].call
    IN  (c.pc \in {"permute", "butterfly"} /\ d.ret # "panic") =>
            /\ (c.pc = "permute" /\ d.pc = "permute") =>
                  (d.i = c.i + 1 /\ d.i <= c.hi /\ d.hi = c.hi /\ c.hi = CoreLen - 1)
            /\ (c.pc = "permute" /\ d.pc # "permute") =>
                  IF CoreLen > 1 THEN d.pc = "butterfly" /\ d.stride = 1
                  ELSE d.pc # "butterfly"
            /\ (c.pc = "butterfly" /\ d.pc = "butterfly") =>
                  /\ \/ d.stride = c.stride /\ d.j = c.j /\ d.i > c.i
                     \/ d.stride = c.stride /\ d.j > c.j
                     \/ d.stride = 2 * c.stride
                  /\ d.i < d.stride /\ d.j + d.i + d.stride < CoreLen
            /\ (c.pc = "butterfly" /\ d.pc # "butterfly") =>
                  (2 * c.stride = CoreLen /\ d.pc # "permute")

\* C24: for every power-of-two N >= 1 table construction and the butterfly
\* core terminate: the inner loop `while j >= k` of precompute_bitrev always
\* exits with k >= 1, and the stage loop runs the stages of stride 1, 2, ...,
\* N/2 and no other, each of them a bounded count of butterflies.
C24_Terminates == []C24_BitrevLoopExits /\ [][C24_Stages]_vars

\* C24 witness: a transform of 16 complex elements has returned Ok
C24_Witness ==
    /\ engine = "fixed_cplx" /\ n = 16 /\ Len(bitrev) = 16
    /\ TheCall.pc = "done" /\ TheCall.ret = "Ok" /\ TheCall.stride = 16

\* C25 (fixed-point part): when the unweaving loop of an inverse real FFT of
\* N >= 4 samples starts, and still when the inner transform is entered,
\* the entry at complex index N/4 is the conjugate of the entry of the input.
C25_FixedQuarter ==
    (/\ engine = "fixed_real" /\ n >= 4 /\ TheCall.inverse
     /\ TheCall.pc \in {"weave", "permute"} /\ TheCall.i = 1) =>
        LET before == cbuffer_get(TheHandle, thread[1].input, n \div 4)
            after == cbuffer_get(TheHandle, TheCall.buf, n \div 4)
        IN  /\ to_bits(after.re) = to_bits(before.re)
            /\ to_bits(after.im) = 0 - to_bits(before.im)

\* C25 (floating-point part): the buffer process_inv hands to the inner
\* transform holds at complex index N/4 the conjugate of the entry of the
\* input.
C25_FloatQuarter ==
    (calc.op = "float_process_inv" /\ n >= 4 /\ calc.out.result = "Ok") =>
        LET re == calc.in[2 * (n \div 4) + 1]
            im == calc.in[2 * (n \div 4) + 2]
        IN  calc.out.cbuffer[n \div 4 + 1] = Complex32_new(re, 0 - im)

\* C25: in the inverse real FFT, for every N >= 4, the entry at complex index
\* N/4 is replaced by its own conjugate (real part unchanged, imaginary part
\* negated) before the inner inverse transform runs, in the fixed-point and
\* in the floating-point adapter.
C25_InverseConjugatesQuarter == C25_FixedQuarter /\ C25_FloatQuarter

RECURSIVE StoreSum(_, _)
StoreSum(x, k) == IF k = 0 THEN 0 ELSE StoreSum(x, k - 1) + to_bits(x[k])

RECURSIVE AlternatingSum(_, _)
AlternatingSum(x, k) ==
    IF k = 0 THEN 0
    ELSE AlternatingSum(x, k - 1) + (IF k % 2 = 1 THEN to_bits(x[k]) ELSE 0 - to_bits(x[k]))

\* C26: for every power-of-two N >= 2 (N = 2 included) and every real input
\* of small stores, after a successful forward real FFT buffer[0] is exactly
\* the sum of the N input stores (DC) and buffer[1] exactly the alternating
\* sum x[0] - x[1] + x[2] - ... (Nyquist).
C26_DcAndNyquist ==
    (/\ engine = "fixed_real" /\ new_result = "Ok" /\ n >= 2
     /\ hist = <<FALSE>> /\ proc_result = "Ok") =>
        /\ to_bits(buffer[1]) = StoreSum(orig, n)
        /\ to_bits(buffer[2]) = AlternatingSum(orig, n)

C28_Frame ==
    (new_result' \in {"NotPowerOfTwo", "BufferTooSmall"}) =>
        (twiddles' = twiddles /\ bitrev' = bitrev)

\* C28: when new returns NotPowerOfTwo or BufferTooSmall (complex and real,
\* fixed and float), every entry of the caller's twiddle table and
\* bit-reversal table is unchanged, the tables keeping their capacity and
\* the zeros they were allocated with.
C28_ErrorLeavesTables ==
    /\ []((new_result \in {"NotPowerOfTwo", "BufferTooSmall"}) => TablesUntouched)
    /\ [][C28_Frame]_vars

\* C28 witness: the real float handle of 8 samples refused for a
\* bit-reversal table of 3 entries, its 4 twiddles still zero
C28_Witness ==
    /\ engine = "float_real" /\ new_result = "BufferTooSmall" /\ n = 8
    /\ Len(twiddles) = 4 /\ Len(bitrev) = 3
    /\ twiddles = ZeroTwiddles("float_real", 4)

\* the handle used on a buffer declared as Fixed<F>
DeclaredAt(F) == [TheHandle EXCEPT !.frac = F]

\* C29 (step part): a step of a transform on a buffer of given raw stores
\* leaves the same stores, counters and outcome whatever fractional width
\* the buffer is declared with.
C29_Step ==
    (TheCall.pc \notin {"idle", "done"} /\ thread'[1].call # TheCall) =>
        \A F \in Fracs : thread'[1].call = step(DeclaredAt(F), TheCall)

\* C29: the fixed-point transforms act on raw stores independently of the
\* data fractional width: the same handle, size and direction (complex core
\* and real adapter alike) produce bit-identical output stores for buffers
\* of identical stores declared with different FRAC.
C29_FracIndependent == [][C29_Step]_vars

\* C29 witness: the forward real FFT of the ramp of 16 samples has returned
C29_Witness ==
    /\ engine = "fixed_real" /\ n = 16 /\ thread[1].input = Ramp("fixed_real", 16)
    /\ ~TheCall.inverse /\ TheCall.pc = "done" /\ TheCall.ret = "Ok"

\* C30: the twiddle of angle 0 is generated in Q31 as the saturated store
\* (2^31 - 1, 0), not a wrapped negative value, and the product of a data
\* store b with it is b itself, bit for bit, for every b with
\* -2^30 < b <= 2^30; the product is b + 1 for b <= -2^30 (b = -2^30
\* included) and b - 1 for b > 2^30.  The product with its zero imaginary
\* part is 0.
C30_TwiddleZero ==
    (calc.op = "mul_twiddle0") =>
        LET b == calc.in[1]
        IN  /\ to_bits(calc.out.twiddle.re) = I32Max
            /\ to_bits(calc.out.twiddle.im) = 0
            /\ calc.out.im = 0
            /\ (-1073741824 < b /\ b <= 1073741824) => calc.out.re = b
            /\ (b <= -1073741824) => calc.out.re = b + 1
            /\ (b > 1073741824) => calc.out.re = b - 1

\* C30 witness: the store 2^30 multiplied by the twiddle of angle 0
C30_Witness ==
    /\ calc.op = "mul_twiddle0" /\ calc.in = <<1073741824>>
    /\ calc.out.re = 1073741824

\* C30 as stated: the product with the twiddle of angle 0 is b itself for
\* every store b with |b| <= 2^30.
C30_ExactWithinHeadroom ==
    (calc.op = "mul_twiddle0") =>
        LET b == calc.in[1]
        IN  /\ to_bits(calc.out.twiddle.re) = I32Max
            /\ to_bits(calc.out.twiddle.im) = 0
            /\ (-1073741824 <= b /\ b <= 1073741824) => calc.out.re = b
====
